---------------------------- MODULE Spec2Model ----------------------------
(***************************************************************************)
(* Model of MCMG (lib/mcmg): the Note/Event string codec, the transition   *)
(* table builder Instrument.build_tm, the generator Instrument.compose and *)
(* the MIDI writer Instrument.to_midi; and build_tm of the earlier         *)
(* revision lib/instrument.py.                                             *)
(*                                                                         *)
(* A Python str is modelled as a sequence of one-character strings, so     *)
(* that partition/split/startswith act on characters as in the source.     *)
(* An entry count/total of a table is named by the reduced fraction        *)
(* <<num, den>>: it is the double that the quotient rounds to.  The sums   *)
(* and comparisons of compose, and the decimal texts of the CSV file, are  *)
(* computed on the bits of the doubles.                                    *)
(***************************************************************************)
EXTENDS Integers, Sequences, FiniteSets, TLC

----------------------------------------------------------------------------
(* Bounds of the model                                                     *)

\* longest voice stream of the first score in the builder's corpora
MaxStreamLen == 2
\* largest order passed to build_tm
MaxOrder == 3
\* largest n_simulations passed to compose
MaxSim == 2
\* resolution of the random source: random() returns one of the DrawRes + 1
\* values k/DrawRes (cut to a multiple of 2^-53), 0 <= k < DrawRes, and 1 - 2^-53
DrawRes == 2
\* largest denominator of a probability read from a CSV file
MaxDen == 6
\* read_csv returns a double at most MaxBelow doubles below the one to_csv
\* wrote: it drops less than 10^-16 of a value of at least 1/8
MaxBelow == 4
\* longest voice stream given to build_tm of the earlier revision
MaxEarlierLen == 3
\* largest number of time steps given to to_midi
MaxSteps == 2
\* largest number of events of the flat list given to to_midi
MaxFlatSteps == 3

----------------------------------------------------------------------------
(* Python str primitives on character sequences                            *)

Digits == <<"0", "1", "2", "3", "4", "5", "6", "7", "8", "9">>

IsDigit(c) == \E d \in 1..10 : Digits[d] = c

DigitVal(c) == (CHOOSE d \in 1..10 : Digits[d] = c) - 1

RECURSIVE NatToStr(_)
NatToStr(n) ==
    IF n < 10 THEN <<Digits[n + 1]>>
    ELSE NatToStr(n \div 10) \o <<Digits[(n % 10) + 1]>>

\* str(int)
IntToStr(n) == IF n < 0 THEN <<"-">> \o NatToStr(0 - n) ELSE NatToStr(n)

RECURSIVE DigitsToNat(_, _)
DigitsToNat(s, acc) ==
    IF s = <<>> THEN acc
    ELSE DigitsToNat(Tail(s), acc * 10 + DigitVal(Head(s)))

AllDigits(s) == s # <<>> /\ \A i \in 1..Len(s) : IsDigit(s[i])

\* A result of an operation that may raise: ok with a value, or the error.
Ok(v) == [ok |-> TRUE, val |-> v, err |-> "none"]
Raise(kind) == [ok |-> FALSE, val |-> <<>>, err |-> kind]

\* int(str): an optional sign and decimal digits; anything else is ValueError
StrToInt(s) ==
    IF s # <<>> /\ Head(s) \in {"-", "+"}
    THEN IF AllDigits(Tail(s))
         THEN Ok(IF Head(s) = "-" THEN 0 - DigitsToNat(Tail(s), 0)
                 ELSE DigitsToNat(Tail(s), 0))
         ELSE Raise("ValueError")
    ELSE IF AllDigits(s) THEN Ok(DigitsToNat(s, 0)) ELSE Raise("ValueError")

\* index of the first occurrence of character c in s, 0 if none
Find(s, c) ==
    LET at == {i \in 1..Len(s) : s[i] = c} IN
    IF at = {} THEN 0 ELSE CHOOSE i \in at : \A j \in at : i <= j

\* str.partition(c) for a one-character separator
Partition(s, c) ==
    LET i == Find(s, c) IN
    IF i = 0 THEN [before |-> s, found |-> FALSE, after |-> <<>>]
    ELSE [before |-> SubSeq(s, 1, i - 1), found |-> TRUE,
          after |-> SubSeq(s, i + 1, Len(s))]

\* index of the last occurrence of the two characters c c in s, 0 if none
RFind2(s, c) ==
    LET at == {i \in 1..(Len(s) - 1) : s[i] = c /\ s[i + 1] = c} IN
    IF at = {} THEN 0 ELSE CHOOSE i \in at : \A j \in at : i >= j

\* str.rpartition(c + c)
RPartition2(s, c) ==
    LET i == RFind2(s, c) IN
    IF i = 0 THEN [before |-> <<>>, found |-> FALSE, after |-> s]
    ELSE [before |-> SubSeq(s, 1, i - 1), found |-> TRUE,
          after |-> SubSeq(s, i + 2, Len(s))]

\* str.split(c): the pieces between the occurrences of c, empty ones included
RECURSIVE Split(_, _)
Split(s, c) ==
    LET i == Find(s, c) IN
    IF i = 0 THEN <<s>>
    ELSE <<SubSeq(s, 1, i - 1)>> \o Split(SubSeq(s, i + 1, Len(s)), c)

\* str.lstrip(c)
RECURSIVE LStrip(_, _)
LStrip(s, c) ==
    IF s # <<>> /\ Head(s) = c THEN LStrip(Tail(s), c) ELSE s

\* str.startswith(p)
StartsWith(s, p) == Len(s) >= Len(p) /\ SubSeq(s, 1, Len(p)) = p

\* sep.join(parts)
RECURSIVE Join(_, _)
Join(parts, sep) ==
    IF parts = <<>> THEN <<>>
    ELSE IF Len(parts) = 1 THEN parts[1]
    ELSE parts[1] \o sep \o Join(Tail(parts), sep)

\* the pieces that are not empty: filter(None, ...) and [n for n in ... if n]
RECURSIVE NonEmpty(_)
NonEmpty(parts) ==
    IF parts = <<>> THEN <<>>
    ELSE IF Head(parts) = <<>> THEN NonEmpty(Tail(parts))
    ELSE <<Head(parts)>> \o NonEmpty(Tail(parts))

RECURSIVE Gcd(_, _)
Gcd(a, b) == IF b = 0 THEN a ELSE Gcd(b, a % b)

\* fractions.Fraction(n, d), d > 0: the fraction in lowest terms
Fraction(n, d) ==
    LET g == Gcd(IF n < 0 THEN 0 - n ELSE n, d) IN <<n \div g, d \div g>>

\* fractions.Fraction(str) for the forms "n" and "n/d"
FractionFromString(s) ==
    LET p == Partition(s, "/") IN
    IF ~p.found
    THEN LET n == StrToInt(s) IN
         IF n.ok THEN Ok(<<n.val, 1>>) ELSE Raise("ValueError")
    ELSE LET n == StrToInt(p.before) IN
         IF ~n.ok \/ ~AllDigits(p.after) THEN Raise("ValueError")
         ELSE IF DigitsToNat(p.after, 0) = 0 THEN Raise("ZeroDivisionError")
         ELSE Ok(Fraction(n.val, DigitsToNat(p.after, 0)))

\* a + b of two fractions
AddFractions(a, b) == Fraction(a[1] * b[2] + b[1] * a[2], a[2] * b[2])

\* the sum of a sequence of fractions
RECURSIVE SumFractions(_)
SumFractions(xs) ==
    IF xs = <<>> THEN <<0, 1>>
    ELSE AddFractions(Head(xs), SumFractions(Tail(xs)))

\* Optional values: a str or None
Some(v) == [some |-> TRUE, val |-> v]
None == [some |-> FALSE, val |-> <<>>]

sNone == <<"N", "o", "n", "e">>


----------------------------------------------------------------------------
(* Note and Event (lib/mcmg/note.py, lib/mcmg/event.py)                    *)
(*                                                                         *)
(* A Note is [clef |-> <<sign, line>>, name, accidental, octave,           *)
(* articulations]: sign, accidental, octave and each articulation are      *)
(* strings, name a one-character string, line an int.  An Event is         *)
(* [notes, type |-> <<numerator, denominator>>, duration].  The memoised   *)
(* repr_str of both classes is derived data and is not part of the value.  *)

Note(clef, name, accidental, octave, articulations) ==
    [clef |-> clef, name |-> name, accidental |-> accidental,
     octave |-> octave, articulations |-> articulations]

\* Note.is_rest
is_rest(n) == n.name = "R"

\* Note.__repr__ without the articulations
NoteReprNoArticulations(n) ==
    <<"(">> \o n.clef[1] \o <<",">> \o IntToStr(n.clef[2]) \o <<")">>
        \o <<n.name>> \o n.accidental \o n.octave \o <<"|">>

\* Note.__repr__
NoteRepr(n) ==
    <<"(">> \o n.clef[1] \o <<",">> \o IntToStr(n.clef[2]) \o <<")">>
        \o <<n.name>> \o n.accidental \o n.octave \o <<"|">>
        \o (IF n.articulations # <<>> THEN Join(n.articulations, <<",">>)
            ELSE <<>>)

\* the accidental prefix of the text after the name: "bb" before "x", "#", "b"
AccidentalNonGreedy(rest) ==
    IF rest # <<>> /\ Head(rest) \in {"x", "#", "b"} THEN <<Head(rest)>>
    ELSE <<>>

AccidentalOf(rest) ==
    IF StartsWith(rest, <<"b", "b">>) THEN <<"b", "b">>
    ELSE IF rest # <<>> /\ Head(rest) \in {"x", "#", "b"} THEN <<Head(rest)>>
    ELSE <<>>

\* lines 79-95: the name, the accidental, the octave and the articulations
NoteFromFields(clef, name, rest, accidental, articulation_part) ==
    Ok(Note(clef, name, accidental,
            SubSeq(rest, Len(accidental) + 1, Len(rest)),
            IF articulation_part # <<>>
            THEN NonEmpty(Split(articulation_part, ","))
            ELSE <<>>))

\* lines 72-95: q is remainder.partition('|')
NoteFromPitch(clef, q) ==
    IF ~q.found THEN Raise("ValueError")
    ELSE IF q.before = <<>> THEN Raise("ValueError")
    ELSE NoteFromFields(clef, Head(q.before), Tail(q.before),
                        IF Head(q.before) # "R"
                        THEN AccidentalOf(Tail(q.before)) ELSE <<>>,
                        q.after)

\* lines 69-95: clef_parts is clef_content.split(','), unpacked into two
NoteFromClef(clef_parts, clef_line, remainder) ==
    IF Len(clef_parts) # 2 THEN Raise("ValueError")
    ELSE IF ~clef_line.ok THEN Raise("ValueError")
    ELSE NoteFromPitch(<<clef_parts[1], clef_line.val>>,
                       Partition(remainder, "|"))

\* lines 68-95: clef_content is clef_part.lstrip('(')
NoteFromClefContent(clef_parts, remainder) ==
    NoteFromClef(clef_parts,
                 IF Len(clef_parts) = 2 THEN StrToInt(clef_parts[2])
                 ELSE Raise("ValueError"),
                 remainder)

\* lines 65-95: p is note_str.partition(')')
NoteFromPartition(p) ==
    IF ~p.found THEN Raise("ValueError")
    ELSE NoteFromClefContent(Split(LStrip(p.before, "("), ","), p.after)

\* Note.from_string
NoteFromString(note_str) ==
    IF note_str = <<>> THEN Raise("ValueError")
    ELSE NoteFromPartition(Partition(note_str, ")"))

Event(notes, type, duration) ==
    [notes |-> notes, type |-> type, duration |-> duration]

\* Event.is_chord
is_chord(e) == Len(e.notes) > 1

\* Event.__repr__ without the separator between the notes and the timing
EventReprOneSeparator(e) ==
    Join([i \in 1..Len(e.notes) |-> NoteRepr(e.notes[i])], <<">">>)
        \o <<">">>
        \o IntToStr(e.type[1]) \o <<"/">> \o IntToStr(e.type[2]) \o <<"|">>
        \o (IF e.duration.some THEN e.duration.val ELSE sNone)

\* Event.__repr__
EventRepr(e) ==
    Join([i \in 1..Len(e.notes) |-> NoteRepr(e.notes[i])], <<">">>)
        \o <<">", ">">>
        \o IntToStr(e.type[1]) \o <<"/">> \o IntToStr(e.type[2]) \o <<"|">>
        \o (IF e.duration.some THEN e.duration.val ELSE sNone)

\* the position of the first result that is an error, 0 if there is none
FirstFailed(results) ==
    LET bad == {i \in 1..Len(results) : ~results[i].ok} IN
    IF bad = {} THEN 0 ELSE CHOOSE i \in bad : \A j \in bad : i <= j

\* the values of a sequence of results
Values(results) == [i \in 1..Len(results) |-> results[i].val]

\* lines 74-78: Fraction(frac_part), the duration, the Event
EventFromTiming(notes, note_type, duration_part) ==
    IF ~note_type.ok THEN Raise(note_type.err)
    ELSE Ok(Event(notes, note_type.val,
                  IF duration_part # sNone THEN Some(duration_part)
                  ELSE None))

\* the same without the check of the separator of the timing
EventFromNotesNoBarCheck(decoded, t) ==
    IF FirstFailed(decoded) # 0 THEN Raise(decoded[FirstFailed(decoded)].err)
    ELSE EventFromTiming(Values(decoded), FractionFromString(t.before),
                         t.after)

\* lines 68-78: decoded is [Note.from_string(ns) for ns in note_strings],
\* t is timing_part.partition("|")
EventFromNotes(decoded, t) ==
    IF FirstFailed(decoded) # 0 THEN Raise(decoded[FirstFailed(decoded)].err)
    ELSE IF ~t.found THEN Raise("ValueError")
    ELSE EventFromTiming(Values(decoded), FractionFromString(t.before),
                         t.after)

\* lines 65-78: note_strings is [n for n in notes_part.split(">") if n]
EventFromNoteStrings(note_strings, timing_part) ==
    IF note_strings = <<>> THEN Raise("ValueError")
    ELSE EventFromNotes([i \in 1..Len(note_strings) |->
                            NoteFromString(note_strings[i])],
                        Partition(timing_part, "|"))

\* lines 60-78: p is event_str.rpartition(">>")
EventFromPartition(p) ==
    IF ~p.found THEN Raise("ValueError")
    ELSE EventFromNoteStrings(NonEmpty(Split(p.before, ">")), p.after)

\* Event.from_string
EventFromString(event_str) == EventFromPartition(RPartition2(event_str, ">"))

----------------------------------------------------------------------------
(* The values the model draws its inputs from                              *)

sStaccato == <<"s", "t", "a", "c", "c", "a", "t", "o">>
sAccent == <<"a", "c", "c", "e", "n", "t">>

ClefG == <<<<"G">>, 2>>
ClefF == <<<<"F">>, 4>>

Accidentals == {<<>>, <<"#">>, <<"b">>, <<"x">>, <<"b", "b">>}

\* The valid Notes of the codec checks: a rest has no accidental and no
\* octave, a pitched note has an accidental of the grammar and digits.
ValidNotes ==
    {Note(c, "R", <<>>, <<>>, a) :
        c \in {ClefG, ClefF}, a \in {<<>>, <<sStaccato>>}}
    \cup
    {Note(x[1], x[2], x[3], x[4], x[5]) :
        x \in {ClefG, ClefF} \X {"A", "B", "G"} \X Accidentals
              \X {<<"4">>, <<"1", "0">>}
              \X {<<>>, <<sStaccato>>, <<sAccent, sStaccato>>}}

\* The notes the Events of the codec checks are made of
EventNotes ==
    {Note(ClefG, "R", <<>>, <<>>, <<>>),
     Note(ClefG, "C", <<>>, <<"4">>, <<>>),
     Note(ClefF, "B", <<"b">>, <<"3">>, <<sStaccato>>),
     Note(ClefF, "B", <<"b", "b">>, <<"3">>, <<sAccent, sStaccato>>)}

\* The valid Events of the codec checks: one or two notes, a type in lowest
\* terms, a tick string or None
ValidEvents ==
    {Event(x[1], x[2], x[3]) :
        x \in ({<<n>> : n \in EventNotes}
                  \cup {<<n, m>> : n \in EventNotes, m \in EventNotes})
              \X {<<1, 4>>, <<2, 1>>, <<1, 64>>}
              \X {None, Some(<<"2">>), Some(<<"1", "2">>)}}

----------------------------------------------------------------------------
(* The corpora the model draws its inputs from                             *)

\* "(G,2)C4|>>1/4|2"
E1 == Event(<<Note(ClefG, "C", <<>>, <<"4">>, <<>>)>>, <<1, 4>>, Some(<<"2">>))
\* "(G,2)R|>>1/2|None"
E2 == Event(<<Note(ClefG, "R", <<>>, <<>>, <<>>)>>, <<1, 2>>, None)
\* "(F,4)Bb3|staccato>(F,4)D4|>>1/8|1"
E3 == Event(<<Note(ClefF, "B", <<"b">>, <<"3">>, <<sStaccato>>),
              Note(ClefF, "D", <<>>, <<"4">>, <<>>)>>, <<1, 8>>, Some(<<"1">>))

EventPool == {E1, E2, E3}

\* the sequences over S of length lo..hi
SeqsOf(S, lo, hi) == UNION {[1..n -> S] : n \in lo..hi}

\* A parsed score (Parser.parse_to_dict) is the sequence of its instruments'
\* dictionaries in insertion order, the "Info" entry set apart; a dictionary
\* maps the staves it has (1, 2, for the keys "1", "2") to Event streams.
OneInstrument(staves) == <<staves>>

FirstScores ==
    {OneInstrument(1 :> s) : s \in SeqsOf(EventPool, 0, MaxStreamLen)}
    \cup
    {OneInstrument((1 :> s) @@ (2 :> t)) :
        s \in SeqsOf(EventPool, 0, MaxStreamLen),
        t \in {<<E3>>, <<E3, E1>>, <<E3, E1, E3>>}}

SecondScores ==
    {OneInstrument(1 :> <<E3>>),
     OneInstrument((1 :> <<E1>>) @@ (2 :> <<E2>>))}

\* two voices of equal length 5 in one score
FiveLongCorpora ==
    {<<OneInstrument((1 :> s) @@ (2 :> t))>> :
        s \in {u \in SeqsOf({E1, E2}, 5, 5) : u[1] = E1 /\ u[5] = E1},
        t \in {<<E3, E3, E3, E3, E3>>, <<E3, E3, E1, E1, E3>>}}

\* a single voice of three distinct Events
ScenarioA == <<OneInstrument(1 :> <<E1, E2, E3>>)>>

BuildCorpora ==
    {<<a>> : a \in FirstScores}
    \cup {<<a, b>> : a \in FirstScores, b \in SecondScores}
    \cup FiveLongCorpora
    \cup {ScenarioA}

VoiceLists == {<<>>, <<1>>, <<1, 2>>}

----------------------------------------------------------------------------
(* State                                                                   *)

VARIABLES
    cpc,        \* codec check: "off", "new", "encoded", "decoded", "paired",
                \* "mangled", "parsed"
    ckind,      \* codec check: "note" or "event"
    cx,         \* codec check: the value
    cenc,       \* codec check: str(cx)
    cdec,       \* codec check: the result of from_string(cenc)
    cy,         \* codec check: a second value of the same kind
    cenc2,      \* codec check: str(cy)
    parsed_mxls, \* Instrument.parsed_mxls
    voices,     \* Instrument.voices
    tm,         \* Instrument.tm
    file,       \* the CSV file at the save/load path, NoFile if there is none
    saved,      \* the table the last to_csv wrote to the file
    last,       \* the last call of build_tm: its arguments and how it ended
    pc,         \* "idle", or "compose" inside the loop of compose
    n_simulations, \* compose: the argument
    sims_left,  \* compose: iterations of the loop still to run
    current_str, \* compose: the current state key
    comp,       \* compose: the composition so far
    ret,        \* what compose returned or raised, if it was the last call
    rngTape,    \* the values the seeded random source yields, as far as drawn
    rngPos,     \* how many of them were consumed since the source was seeded
    ref,        \* the first composition returned since the source was seeded
    midi_args,  \* the arguments of a call of to_midi, and the instrument's
                \* divisions and tempo
    midi        \* what that call of to_midi made or raised, if it was made

codecVars == <<cpc, ckind, cx, cenc, cdec, cy, cenc2>>

corpusVars == <<parsed_mxls, voices>>

composeVars ==
    <<pc, n_simulations, sims_left, current_str, comp, ret>>

rngVars == <<rngTape, rngPos>>

tableVars == <<tm, file, saved, last>>

midiVars == <<midi_args, midi>>

vars ==
    <<codecVars, corpusVars, tableVars, composeVars, rngVars, ref, midiVars>>

----------------------------------------------------------------------------
(* The transition table (a pandas DataFrame of floats)                     *)
(*                                                                         *)
(* [index, columns, val]: the row labels and the column labels in their    *)
(* order, and val[r][c] the entry of row r and column c.                   *)

\* pd.DataFrame()
EmptyTm == [index |-> <<>>, columns |-> <<>>, val |-> <<>>]

\* DataFrame.empty
TmEmpty(t) == Len(t.index) = 0 \/ Len(t.columns) = 0

Range(f) == {f[i] : i \in DOMAIN f}

\* the position of a label in a sequence of labels, 0 if it is not one
IndexOf(labels, key) ==
    IF \E i \in 1..Len(labels) : labels[i] = key
    THEN CHOOSE i \in 1..Len(labels) : labels[i] = key
    ELSE 0

RECURSIVE SumSeq(_)
SumSeq(xs) == IF xs = <<>> THEN 0 ELSE Head(xs) + SumSeq(Tail(xs))

\* the orders in which list(set) may enumerate a set of strings
Perms(S) ==
    {p \in [1..Cardinality(S) -> S] :
        \A i, j \in 1..Cardinality(S) : p[i] = p[j] => i = j}

----------------------------------------------------------------------------
(* Instrument.build_tm: aggregation, windows, counts, normalisation        *)

\* inst_dict.get(str(voice), [])
VoiceOf(inst_dict, voice) ==
    IF voice \in DOMAIN inst_dict THEN inst_dict[voice] ELSE <<>>

\* the instrument dictionaries of all the scores, in the order of the loops
RECURSIVE AllInstruments(_)
AllInstruments(mxls) ==
    IF mxls = <<>> THEN <<>> ELSE Head(mxls) \o AllInstruments(Tail(mxls))

\* the stream of the last dictionary only: assignment instead of extend
GatherOverwrite(insts, voice) ==
    IF insts = <<>> THEN <<>> ELSE VoiceOf(insts[Len(insts)], voice)

\* voices_dict[voice] after the loops of lines 73-77
RECURSIVE Gather(_, _)
Gather(insts, voice) ==
    IF insts = <<>> THEN <<>>
    ELSE VoiceOf(Head(insts), voice) \o Gather(Tail(insts), voice)

\* voices_dict after step 1
VoicesDict(mxls, vs) ==
    [v \in Range(vs) |-> Gather(AllInstruments(mxls), v)]

\* min_voice_length
MinVoiceLength(vd) ==
    CHOOSE m \in {Len(vd[v]) : v \in DOMAIN vd} :
        \A v \in DOMAIN vd : m <= Len(vd[v])

\* the string of the event of the first voice alone
GroupFirstVoiceOnly(vd, vs, i) == EventRepr(vd[vs[1]][i + 1])

\* "&".join(str(voices_dict[voice][i]) for voice in self.voices)
Group(vd, vs, i) ==
    Join([k \in 1..Len(vs) |-> EventRepr(vd[vs[k]][i + 1])], <<"&">>)

\* the start indices of the windows when the last `order` steps are dropped
\* instead of wrapped
WindowStartsTruncated(L, order) == 0..(L - order - 1)

\* range(min_voice_length)
WindowStarts(L, order) == 0..(L - 1)

\* the index of the event j steps after i without the wraparound, clamped
\* to the last event
StepIndexClamped(i, j, L) == IF i + j < L THEN i + j ELSE L - 1

\* (i + j) % min_voice_length
StepIndex(i, j, L) == (i + j) % L

\* current_ev / src
StateKey(vd, vs, i, order, L) ==
    Join([j \in 1..order |-> Group(vd, vs, StepIndex(i, j - 1, L))], <<"+">>)

\* the successor taken one step after the start of the window, whatever the
\* order
SuccessorKeyNextStep(vd, vs, i, order, L) == Group(vd, vs, StepIndex(i, 1, L))

\* next_ev / dest
SuccessorKey(vd, vs, i, order, L) == Group(vd, vs, StepIndex(i, order, L))

\* the (current_ev, next_ev) pair of every i of the loops of steps 3 and 4
Transitions(vd, vs, order, L) ==
    [i \in WindowStarts(L, order) |->
        <<StateKey(vd, vs, i, order, L), SuccessorKey(vd, vs, i, order, L)>>]

\* the state keys without the window that starts at the last index
UniqueStatesButLast(tr) ==
    {tr[i][1] : i \in {j \in DOMAIN tr : j + 1 \in DOMAIN tr}}

\* unique_ev_n_order_str
UniqueStates(tr) == {tr[i][1] : i \in DOMAIN tr}

\* unique_ev_str
UniqueEvents(tr) == {tr[i][2] : i \in DOMAIN tr}

\* the counts without the transition of the window that starts at the last
\* index
RawCountsButLast(tr, index, columns) ==
    [r \in 1..Len(index) |-> [c \in 1..Len(columns) |->
        Cardinality({i \in DOMAIN tr :
                        /\ i + 1 \in DOMAIN tr
                        /\ tr[i] = <<index[r], columns[c]>>})]]

\* step 4: tm.loc[src, dest] += 1 for every i
RawCounts(tr, index, columns) ==
    [r \in 1..Len(index) |-> [c \in 1..Len(columns) |->
        Cardinality({i \in DOMAIN tr : tr[i] = <<index[r], columns[c]>>})]]

\* the normalisation without the division
NormalizeSkipped(raw) ==
    [r \in DOMAIN raw |-> [c \in DOMAIN raw[r] |-> Fraction(raw[r][c], 1)]]

\* the normalisation that leaves a row that sums to zero as it is
NormalizeNoFallback(raw) ==
    [r \in DOMAIN raw |-> [c \in DOMAIN raw[r] |->
        IF SumSeq(raw[r]) = 0 THEN <<0, 1>>
        ELSE Fraction(raw[r][c], SumSeq(raw[r]))]]

\* lines 129-133: rows that sum to zero are set to 1.0, then every row is
\* divided by its sum
Normalize(raw) ==
    LET filled == [r \in DOMAIN raw |->
                      IF SumSeq(raw[r]) = 0
                      THEN [c \in DOMAIN raw[r] |-> 1]
                      ELSE raw[r]]
    IN  [r \in DOMAIN raw |-> [c \in DOMAIN raw[r] |->
            Fraction(filled[r][c], SumSeq(filled[r]))]]

\* An error raised by build_tm, or none
NoError == [raised |-> FALSE, what |-> "none", order |-> 0,
            min_voice_length |-> 0]

ErrorOf(what, order, min_voice_length) ==
    [raised |-> TRUE, what |-> what, order |-> order,
     min_voice_length |-> min_voice_length]

\* the order check accepting order = min_voice_length
OrderTooLargeOffByOne(order, L) == order > L

\* line 84
OrderTooLarge(order, L) == order >= L

\* the (current_ev, next_ev) pairs build_tm counts on the voices vd
TransitionsIn(vd, vs, order) ==
    Transitions(vd, vs, order, MinVoiceLength(vd))

\* the (current_ev, next_ev) pairs build_tm counts for this instrument
TransitionsOf(mxls, vs, order) ==
    TransitionsIn(VoicesDict(mxls, vs), vs, order)

\* lines 83-106 on the voices vd of min_voice_length L
BuildErrorIn(vd, vs, order, L) ==
    IF OrderTooLarge(order, L) THEN ErrorOf("order", order, L)
    ELSE IF UniqueEvents(Transitions(vd, vs, order, L)) = {}
    THEN ErrorOf("no events", order, L)
    ELSE NoError

\* lines 71-106 on the voices vd
BuildErrorOn(vd, vs, order) ==
    BuildErrorIn(vd, vs, order, MinVoiceLength(vd))

\* the ValueError build_tm raises before it makes a table, if any
BuildError(mxls, vs, order) ==
    IF Len(vs) = 0 THEN ErrorOf("empty voices", 0, 0)
    ELSE BuildErrorOn(VoicesDict(mxls, vs), vs, order)

\* the table with the state keys as its columns too
BuiltTableSquare(tr, index, columns) ==
    [index |-> index, columns |-> index,
     val |-> Normalize(RawCounts(tr, index, index))]

\* the table build_tm makes when the sets are enumerated as index, columns
BuiltTable(tr, index, columns) ==
    [index |-> index, columns |-> columns,
     val |-> Normalize(RawCounts(tr, index, columns))]

\* the tables build_tm can make of the pairs tr: one for each enumeration of
\* the two sets
TablesOf(tr) ==
    {BuiltTable(tr, index, columns) :
        index \in Perms(UniqueStates(tr)), columns \in Perms(UniqueEvents(tr))}

BuiltTables(mxls, vs, order) == TablesOf(TransitionsOf(mxls, vs, order))

----------------------------------------------------------------------------
(* Floats (IEEE 754 binary64)                                              *)
(*                                                                         *)
(* A non-negative double is [int |-> i, frac |-> f]: the integer i plus    *)
(* the binary fraction f, written as Limbs digits of LimbBits bits each    *)
(* (f[1] holds the first LimbBits bits after the point).  A double has at  *)
(* most MantissaBits significant bits; the numbers of the model are 0 and  *)
(* those whose last significant bit is one of the Limbs * LimbBits bits    *)
(* after the point (no subnormal numbers, no infinities).                  *)
(*                                                                         *)
(* An entry of a table is named by the ratio it is computed from: <<n, d>> *)
(* is the double that n/d rounds to (tm.div of the count n by the row sum  *)
(* d), <<n, d, 1>> the double next above it and <<n, d, -1>> the double    *)
(* next below it.                                                          *)

\* the bits of the significand of a double (dtype=float)
MantissaBits == 53

\* the bits of a limb, the base of the limbs and the limbs of a fraction:
\* the products of two limbs are below 2^31, and Limbs * LimbBits bits hold
\* any double from 2^-17 up
LimbBits == 14
Limb == 2^LimbBits
Limbs == 5

\* the fraction 0
NoFrac == [m \in 1..Limbs |-> 0]

\* the number of bits of the integer n < 2^30
BitLen(n) == Cardinality({t \in 0..29 : 2^t <= n})

\* bit j after the point of the fraction f
Bit(f, j) ==
    IF j > Limbs * LimbBits THEN 0
    ELSE (f[(j - 1) \div LimbBits + 1]
              \div 2^(LimbBits - 1 - ((j - 1) % LimbBits))) % 2

\* the number of zero bits the fraction starts with
LeadingZeros(f) ==
    LET at == {m \in 1..Limbs : f[m] # 0}
        first == CHOOSE m \in at : \A u \in at : m <= u
    IN  IF at = {} THEN Limbs * LimbBits
        ELSE first * LimbBits - BitLen(f[first])

\* the position, after the point, of the last significant bit of a double
\* that starts as i.f does
LastBit(i, f) ==
    IF i > 0 THEN MantissaBits - BitLen(i)
    ELSE LeadingZeros(f) + MantissaBits

\* the first k bits of the fraction f
Truncate(f, k) ==
    [m \in 1..Limbs |->
        IF m * LimbBits <= k THEN f[m]
        ELSE IF (m - 1) * LimbBits >= k THEN 0
        ELSE f[m] - (f[m] % 2^(m * LimbBits - k))]

\* the fraction 2^-k, k >= 1
Unit(k) ==
    [m \in 1..Limbs |->
        IF m = (k - 1) \div LimbBits + 1
        THEN 2^(LimbBits - 1 - ((k - 1) % LimbBits)) ELSE 0]

\* a + b of two fractions and the carry into the integer: a limb receives
\* a carry when a limb after it overflows and the limbs between are full
AddFrac(a, b) ==
    LET carry(m) == \E t \in (m + 1)..Limbs :
                        /\ a[t] + b[t] >= Limb
                        /\ \A u \in (m + 1)..(t - 1) : a[u] + b[u] = Limb - 1
    IN  [frac |-> [m \in 1..Limbs |->
                      (a[m] + b[m] + IF carry(m) THEN 1 ELSE 0) % Limb],
         carry |-> IF carry(0) THEN 1 ELSE 0]

\* a - b of two fractions and the borrow from the integer: a limb lends
\* when a limb after it is short and the limbs between are equal
SubFrac(a, b) ==
    LET borrow(m) == \E t \in (m + 1)..Limbs :
                         /\ a[t] < b[t]
                         /\ \A u \in (m + 1)..(t - 1) : a[u] = b[u]
    IN  [frac |-> [m \in 1..Limbs |->
                      (a[m] - b[m] - (IF borrow(m) THEN 1 ELSE 0) + Limb)
                          % Limb],
         borrow |-> IF borrow(0) THEN 1 ELSE 0]

\* i.f plus 2^-k
BitsUp(i, f, k) ==
    LET s == AddFrac(f, Unit(k)) IN
    IF k = 0 THEN [int |-> i + 1, frac |-> f]
    ELSE [int |-> i + s.carry, frac |-> s.frac]

\* i.f minus 2^-k
BitsDown(i, f, k) ==
    LET s == SubFrac(f, Unit(k)) IN
    IF k = 0 THEN [int |-> i - 1, frac |-> f]
    ELSE [int |-> i - s.borrow, frac |-> s.frac]

\* round to nearest, ties to even: the double nearest to the number that
\* starts as i.f and, if sticky, goes on with more than zeros
RoundToDouble(i, f, sticky) ==
    LET k == LastBit(i, f)
        guard == Bit(f, k + 1)
        more == sticky \/ f # Truncate(f, k + 1)
        odd == IF k = 0 THEN i % 2 ELSE Bit(f, k)
    IN  IF guard = 1 /\ (more \/ odd = 1)
        THEN BitsUp(i, Truncate(f, k), k)
        ELSE [int |-> i, frac |-> Truncate(f, k)]

\* long division: what is left of r when m limbs of r/b are written
RECURSIVE Remainder(_, _, _)
Remainder(r, b, m) ==
    IF m = 0 THEN r ELSE (Remainder(r, b, m - 1) * Limb) % b

\* the first Limbs limbs of r/b, r < b
QuotientLimbs(r, b) ==
    [m \in 1..Limbs |-> (Remainder(r, b, m - 1) * Limb) \div b]

\* a / b of two floats that hold the integers a >= 0 and b > 0
FloatDiv(a, b) ==
    RoundToDouble(a \div b, QuotientLimbs(a % b, b),
                  Remainder(a % b, b, Limbs) # 0)

\* x + y
FloatAdd(x, y) ==
    LET s == AddFrac(x.frac, y.frac) IN
    RoundToDouble(x.int + y.int + s.carry, s.frac, FALSE)

\* x < y
FloatLess(x, y) ==
    \/ x.int < y.int
    \/ /\ x.int = y.int
       /\ \E m \in 1..Limbs : /\ x.frac[m] < y.frac[m]
                              /\ \A u \in 1..(m - 1) : x.frac[u] = y.frac[u]

\* the double next below x > 0: below a power of two the doubles are half
\* as far apart
NextBelow(x) ==
    LET k == LastBit(x.int, x.frac)
        power == IF x.int > 0
                 THEN x.frac = NoFrac /\ x.int = 2^(BitLen(x.int) - 1)
                 ELSE x.frac = Unit(LeadingZeros(x.frac) + 1)
    IN  BitsDown(x.int, x.frac, IF power THEN k + 1 ELSE k)

\* the double k doubles below x
RECURSIVE Below(_, _)
Below(x, k) == IF k = 0 THEN x ELSE NextBelow(Below(x, k - 1))

\* the double an entry names: <<n, d>> is the quotient n / d, <<n, d, -k>>
\* the double k doubles below it
EntryValue(e) ==
    IF Len(e) = 2 THEN FloatDiv(e[1], e[2])
    ELSE Below(FloatDiv(e[1], e[2]), -e[3])

----------------------------------------------------------------------------
(* Floats as decimal text: repr(float) and float(text)                     *)
(*                                                                         *)
(* The texts are those of the form "i.f", which repr writes for a double   *)
(* from 0.0001 up to 10^16.  A decimal fraction is handled four digits at  *)
(* a time, as limbs of base DecimalLimb; repr looks at the first           *)
(* DecimalLimbs of them.                                                   *)

DecimalLimb == 10^4
DecimalLimbs == 6

\* the fraction f, of limbs of base `from`, times `to`: the integer of the
\* product and its limbs after the point
RECURSIVE Times(_, _, _)
Times(f, from, to) ==
    IF f = <<>> THEN [int |-> 0, frac |-> <<>>]
    ELSE LET rest == Times(Tail(f), from, to)
             p == Head(f) * to + rest.int
         IN  [int |-> p \div from, frac |-> <<p % from>> \o rest.frac]

\* the first n limbs of base `to` of the fraction f of limbs of base `from`,
\* and what they leave: a multiplication by `to` moves one limb before the
\* point
RECURSIVE Expand(_, _, _, _)
Expand(f, from, to, n) ==
    IF n = 0 THEN [limbs |-> <<>>, rest |-> f]
    ELSE LET t == Times(f, from, to)
             later == Expand(t.frac, from, to, n - 1)
         IN  [limbs |-> <<t.int>> \o later.limbs, rest |-> later.rest]

\* the decimal i.ds plus one unit at the last digit of ds: the last digit
\* below 9 goes up and the nines after it become 0
DigitsUp(i, ds) ==
    LET at == {j \in 1..Len(ds) : ds[j] < 9}
        p == IF at = {} THEN 0 ELSE CHOOSE j \in at : \A m \in at : m <= j
    IN  [int |-> IF p = 0 THEN i + 1 ELSE i,
         ds |-> [j \in 1..Len(ds) |->
                    IF j < p THEN ds[j] ELSE IF j = p THEN ds[j] + 1 ELSE 0]]

\* the text of the decimal rounded to m digits after the point, ties to
\* even; the decimal starts as i.ds and, if sticky, goes on with more than
\* zeros.  1 <= m < Len(ds)
RoundedText(i, ds, sticky, m) ==
    LET kept == SubSeq(ds, 1, m)
        more == sticky \/ \E j \in (m + 2)..Len(ds) : ds[j] # 0
        up == \/ ds[m + 1] > 5
              \/ ds[m + 1] = 5 /\ (more \/ ds[m] % 2 = 1)
        r == IF up THEN DigitsUp(i, kept) ELSE [int |-> i, ds |-> kept]
    IN  NatToStr(r.int) \o <<".">> \o [j \in 1..m |-> Digits[r.ds[j] + 1]]

\* float(text), correctly rounded: the double nearest to the decimal "i.f"
FloatOfText(s) ==
    LET p == Partition(s, ".")
        digit(j) == IF j <= Len(p.after) THEN DigitVal(p.after[j]) ELSE 0
        b == Expand([m \in 1..((Len(p.after) + 3) \div 4) |->
                        1000 * digit(4 * m - 3) + 100 * digit(4 * m - 2)
                            + 10 * digit(4 * m - 1) + digit(4 * m)],
                    DecimalLimb, Limb, Limbs)
    IN  RoundToDouble(DigitsToNat(p.before, 0), b.limbs,
                      \E m \in 1..Len(b.rest) : b.rest[m] # 0)

\* repr(x): the decimal of the fewest digits that float() reads as x; 17
\* significant digits tell any two doubles apart
ShortestRepr(x) ==
    LET d == Expand(x.frac, Limb, DecimalLimb, DecimalLimbs)
        ds == [j \in 1..(4 * DecimalLimbs) |->
                  (d.limbs[(j - 1) \div 4 + 1]
                       \div 10^(3 - ((j - 1) % 4))) % 10]
        sticky == d.rest # NoFrac
        zeros == IF x.int > 0 \/ x.frac = NoFrac THEN 0
                 ELSE Cardinality({j \in 1..Len(ds) :
                                      \A m \in 1..j : ds[m] = 0})
        reads == {m \in 1..(zeros + 17) :
                     FloatOfText(RoundedText(x.int, ds, sticky, m)) = x}
    IN  RoundedText(x.int, ds, sticky,
                    CHOOSE m \in reads : \A j \in reads : m <= j)

----------------------------------------------------------------------------
(* DataFrame.to_csv and pd.read_csv(index_col=0)                           *)
(*                                                                         *)
(* The file is the sequence of its lines.  to_csv writes repr of a float.  *)
(* read_csv converts a text with the default converter of pandas, which is *)
(* not the round-trip converter: it reads the first MaxDigits digits of    *)
(* the text, the ones before the point included, as an integer held in a   *)
(* double, drops the digits after them and divides by the power of ten.    *)

NoFile == <<>>

\* max_digits of the converter
MaxDigits == 17

\* the digits of 2^53: the integers up to it are doubles, of those above it
\* up to 2^54 the even ones are
TwoTo53 == <<9, 0, 0, 7, 1, 9, 9, 2, 5, 4, 7, 4, 0, 9, 9, 2>>

\* a > b of two numbers of as many digits
DigitsAbove(a, b) ==
    \E m \in 1..Len(a) : /\ a[m] > b[m]
                         /\ \A u \in 1..(m - 1) : a[u] = b[u]

\* the default converter of read_csv on the text "i.f" of a number below
\* 1.8: number = number * 10 + digit over the first MaxDigits digits, each
\* step in float arithmetic (an odd integer above 2^53 goes to the even one
\* next to it whose half is even), then number / 10^decimals, decimals
\* being the digits read after the point
Converted(s) ==
    LET p == Partition(s, ".")
        i == DigitsToNat(p.before, 0)
        n == IF Len(p.before) + Len(p.after) <= MaxDigits THEN Len(p.after)
             ELSE MaxDigits - Len(p.before)
        ds == [j \in 1..n |-> DigitVal(p.after[j])]
        all == [j \in 1..Len(p.before) |-> DigitVal(p.before[j])] \o ds
        zeros == Cardinality({j \in 1..Len(all) :
                                 \A m \in 1..j : all[m] = 0})
        sig == SubSeq(all, zeros + 1, Len(all))
        large == \/ Len(sig) > Len(TwoTo53)
                 \/ Len(sig) = Len(TwoTo53) /\ DigitsAbove(sig, TwoTo53)
        mod4 == IF n < 2 THEN 0 ELSE (10 * ds[n - 1] + ds[n]) % 4
        r == IF large /\ mod4 = 1
             THEN [int |-> i, ds |-> [ds EXCEPT ![n] = ds[n] - 1]]
             ELSE IF large /\ mod4 = 3 THEN DigitsUp(i, ds)
             ELSE [int |-> i, ds |-> ds]
    IN  FloatOfText(NatToStr(r.int) \o <<".">>
                        \o [j \in 1..n |-> Digits[r.ds[j] + 1]])

\* the ratios of denominator up to MaxDen, from 0 to 1
Ratios ==
    {q \in {Fraction(n, d) : n \in 0..MaxDen, d \in 1..MaxDen} :
        q[1] <= q[2]}

\* the names of the doubles of the model: a ratio, or a ratio above 0 and
\* the number of doubles below it, up to MaxBelow
Named ==
    Ratios \cup {<<q[1], q[2], -k>> : q \in {r \in Ratios : r[1] > 0},
                                      k \in 1..MaxBelow}

\* the double of every name
EntryTable == [e \in Named |-> EntryValue(e)]

\* the double an entry of a table holds
FloatOf(e) == EntryTable[e]

\* the text repr writes for the double of every name
ReprTable == [e \in Named |-> ShortestRepr(EntryTable[e])]

\* repr(float) as to_csv writes it
FloatRepr(e) == ReprTable[e]

\* the name of the double x
NameOf(x) == CHOOSE e \in Named : EntryTable[e] = x

\* the entry read_csv makes of the text s
ParseFloat(s) == NameOf(Converted(s))

\* the entries of the tables of the model: the ratios, which build_tm
\* makes, and what read_csv makes of the text of a ratio
EntryNames == Ratios \cup {ParseFloat(FloatRepr(q)) : q \in Ratios}

\* every quote of a field doubled
DoubleQuotes(s) == Join(Split(s, "\""), <<"\"", "\"">>)

\* every doubled quote of a quoted field made one again
RECURSIVE SingleQuotes(_)
SingleQuotes(s) ==
    LET i == Find(s, "\"") IN
    IF i = 0 THEN s
    ELSE SubSeq(s, 1, i) \o SingleQuotes(SubSeq(s, i + 2, Len(s)))

\* the index of the quote that closes the quoted field s starts with
ClosingQuote(s) ==
    LET at == {i \in 2..Len(s) :
                  /\ s[i] = "\""
                  /\ Cardinality({j \in 2..i : s[j] = "\""}) % 2 = 1
                  /\ (i = Len(s) \/ s[i + 1] # "\"")} IN
    IF at = {} THEN Len(s) + 1 ELSE CHOOSE i \in at : \A j \in at : i <= j

\* csv.QUOTE_MINIMAL: a field with a comma or a quote is quoted
CsvField(s) ==
    IF Find(s, ",") # 0 \/ Find(s, "\"") # 0
    THEN <<"\"">> \o DoubleQuotes(s) \o <<"\"">>
    ELSE s

\* the fields of a line of the file
RECURSIVE CsvFields(_)
CsvFields(s) ==
    IF s # <<>> /\ Head(s) = "\""
    THEN LET i == ClosingQuote(s)
             field == SingleQuotes(SubSeq(s, 2, i - 1))
         IN  IF i + 1 > Len(s) THEN <<field>>
             ELSE <<field>> \o CsvFields(SubSeq(s, i + 2, Len(s)))
    ELSE LET i == Find(s, ",") IN
         IF i = 0 THEN <<s>>
         ELSE <<SubSeq(s, 1, i - 1)>> \o CsvFields(SubSeq(s, i + 1, Len(s)))

\* tm.to_csv(save_path): the header with an empty first field, then a line
\* for each row: its label and its entries
ToCsv(t) ==
    <<Join(<<<<>>>> \o [c \in 1..Len(t.columns) |-> CsvField(t.columns[c])],
           <<",">>)>>
    \o [r \in 1..Len(t.index) |->
          Join(<<CsvField(t.index[r])>>
                  \o [c \in 1..Len(t.columns) |-> FloatRepr(t.val[r][c])],
               <<",">>)]

\* pd.read_csv(load_path, index_col=0)
ReadCsv(lines) ==
    LET header == CsvFields(lines[1])
        rows == [r \in 1..(Len(lines) - 1) |->
                    CsvFields(lines[r + 1])]
    IN  [index |-> [r \in 1..Len(rows) |-> rows[r][1]],
         columns |-> Tail(header),
         val |-> [r \in 1..Len(rows) |->
                    [c \in 1..(Len(header) - 1) |->
                        ParseFloat(rows[r][c + 1])]]]

----------------------------------------------------------------------------
(* The codec: str(x) and from_string                                       *)

Encode(kind, v) == IF kind = "note" THEN NoteRepr(v) ELSE EventRepr(v)

Decode(kind, s) ==
    IF kind = "note" THEN NoteFromString(s) ELSE EventFromString(s)

CodecOff ==
    /\ cpc = "off" /\ ckind = "note" /\ cx = <<>> /\ cenc = <<>>
    /\ cdec = Raise("none") /\ cy = <<>> /\ cenc2 = <<>>

CodecInit ==
    /\ cpc = "new"
    /\ \/ ckind = "note" /\ cx \in ValidNotes
       \/ ckind = "event" /\ cx \in ValidEvents
    /\ cenc = <<>> /\ cdec = Raise("none") /\ cy = <<>> /\ cenc2 = <<>>

\* s = str(x)
CodecEncode ==
    /\ cpc = "new"
    /\ cenc' = Encode(ckind, cx)
    /\ cpc' = "encoded"
    /\ UNCHANGED <<ckind, cx, cdec, cy, cenc2>>
    /\ UNCHANGED <<corpusVars, tableVars, composeVars, rngVars, ref, midiVars>>

\* from_string(s)
CodecDecode ==
    /\ cpc = "encoded"
    /\ cdec' = Decode(ckind, cenc)
    /\ cpc' = "decoded"
    /\ UNCHANGED <<ckind, cx, cenc, cy, cenc2>>
    /\ UNCHANGED <<corpusVars, tableVars, composeVars, rngVars, ref, midiVars>>

\* str(y) of a second value, as when both are used as keys of one table
CodecEncodeOther ==
    /\ cpc = "encoded"
    /\ \E y \in (IF ckind = "note" THEN ValidNotes ELSE ValidEvents) :
          /\ cy' = y
          /\ cenc2' = Encode(ckind, y)
    /\ cpc' = "paired"
    /\ UNCHANGED <<ckind, cx, cenc, cdec>>
    /\ UNCHANGED <<corpusVars, tableVars, composeVars, rngVars, ref, midiVars>>

\* The strings from_string is given that no str() wrote: an encoding with the
\* character at i removed, with it replaced by c, or with the characters
\* before i dropped.
DeleteAt(s, i) == SubSeq(s, 1, i - 1) \o SubSeq(s, i + 1, Len(s))

ReplaceAt(s, i, c) == SubSeq(s, 1, i - 1) \o <<c>> \o SubSeq(s, i + 1, Len(s))

DropBefore(s, i) == SubSeq(s, i, Len(s))

\* the characters an encoding's character is replaced by
MangleChars == {"H", ">"}

Mangled(s) ==
    {DeleteAt(s, i) : i \in 1..Len(s)}
    \cup {ReplaceAt(s, i, c) : i \in 1..Len(s), c \in MangleChars}
    \cup {DropBefore(s, i) : i \in 2..Len(s)}

\* a caller hands from_string a damaged copy of str(x)
CodecMangle ==
    /\ cpc = "encoded"
    /\ cenc' \in Mangled(cenc)
    /\ cpc' = "mangled"
    /\ UNCHANGED <<ckind, cx, cdec, cy, cenc2>>
    /\ UNCHANGED <<corpusVars, tableVars, composeVars, rngVars, ref, midiVars>>

\* from_string(s) of the damaged copy
CodecDecodeMangled ==
    /\ cpc = "mangled"
    /\ cdec' = Decode(ckind, cenc)
    /\ cpc' = "parsed"
    /\ UNCHANGED <<ckind, cx, cenc, cy, cenc2>>
    /\ UNCHANGED <<corpusVars, tableVars, composeVars, rngVars, ref, midiVars>>

CodecNext ==
    \/ CodecEncode
    \/ CodecDecode
    \/ CodecEncodeOther
    \/ CodecMangle
    \/ CodecDecodeMangled


----------------------------------------------------------------------------
(* The Instrument: build_tm                                                *)

NoCall == [op |-> "none", order |-> 0, save |-> FALSE, err |-> NoError]

NoRet == [status |-> "none", val |-> <<>>, err |-> "none"]

NoRef == [set |-> FALSE, tm |-> EmptyTm, n |-> 0, out |-> <<>>]

\* to_midi is not called
NoMidi == [ok |-> FALSE, val |-> <<>>, err |-> "not called"]

MidiOff == midi_args = <<>> /\ midi = NoMidi

\* Instrument.__init__ on a corpus, before any call.  Lines 34-35 read the
\* divisions and the tempo of parsed_mxls[0]: the constructor raises
\* IndexError on a corpus without a score, and there is no instrument then.
InstrumentInit(corpora) ==
    /\ parsed_mxls \in corpora
    /\ Len(parsed_mxls) > 0
    /\ voices \in VoiceLists
    /\ tm = EmptyTm
    /\ file = NoFile /\ saved = EmptyTm /\ last = NoCall
    /\ pc = "idle" /\ n_simulations = 0
    /\ sims_left = 0 /\ current_str = <<>> /\ comp = <<>> /\ ret = NoRet
    /\ rngTape = <<>> /\ rngPos = 0 /\ ref = NoRef

\* What build_tm does to the table and the file: the new table, file and
\* saved table, and the error if it raises.  Loading (lines 61-63):
LoadOutcomes ==
    IF file = NoFile
    THEN {[tm |-> tm, file |-> file, saved |-> saved,
           err |-> ErrorOf("FileNotFoundError", 0, 0)]}
    ELSE {[tm |-> ReadCsv(file), file |-> file, saved |-> saved,
           err |-> NoError]}

\* building that starts by emptying the table of the instrument
BuiltOutcomesClearing(err, order, save) ==
    IF err.raised
    THEN {[tm |-> EmptyTm, file |-> file, saved |-> saved, err |-> err]}
    ELSE {[tm |-> t,
           file |-> IF save THEN ToCsv(t) ELSE file,
           saved |-> IF save THEN t ELSE saved,
           err |-> NoError] : t \in BuiltTables(parsed_mxls, voices, order)}

\* building (lines 65-142), err being the error of the preconditions
BuiltOutcomes(err, order, save) ==
    IF err.raised
    THEN {[tm |-> tm, file |-> file, saved |-> saved, err |-> err]}
    ELSE {[tm |-> t,
           file |-> IF save THEN ToCsv(t) ELSE file,
           saved |-> IF save THEN t ELSE saved,
           err |-> NoError] : t \in BuiltTables(parsed_mxls, voices, order)}

\* build_tm(order, save_path, load_path)
BuildOutcomes(order, save, load) ==
    IF load THEN LoadOutcomes
    ELSE BuiltOutcomes(BuildError(parsed_mxls, voices, order), order, save)

CallOf(order, save, load, o) ==
    [op |-> IF load THEN "load" ELSE "build", order |-> order, save |-> save,
     err |-> o.err]

\* the outcomes of build_tm(order, save_path, load_path), each with the
\* record of the call
CallOutcomes(order, save, load) ==
    {[tm |-> o.tm, file |-> o.file, saved |-> o.saved, err |-> o.err,
      call |-> CallOf(order, save, load, o)] :
        o \in BuildOutcomes(order, save, load)}

\* a call of build_tm by the user of the instrument
BuildCall(order, save, load) ==
    /\ pc = "idle"
    /\ \E o \in CallOutcomes(order, save, load) :
          /\ tm' = o.tm /\ file' = o.file /\ saved' = o.saved
          /\ last' = o.call
    /\ UNCHANGED <<codecVars, midiVars, corpusVars, composeVars, rngVars, ref>>

\* build_tm(order): the first call on a new instrument builds from the corpus
BuildTm ==
    /\ last.op = "none"
    /\ \E order \in 1..MaxOrder : BuildCall(order, FALSE, FALSE)

\* build_tm(order, save_path=...): the same, and the table is written
BuildAndSaveTm ==
    /\ last.op = "none"
    /\ \E order \in 1..MaxOrder : BuildCall(order, TRUE, FALSE)

\* build_tm(load_path=...): load the table from the file
LoadTm == BuildCall(1, FALSE, TRUE)

\* build_tm(order) or build_tm(order, save_path=...) on an instrument that
\* has a table
RebuildTm ==
    /\ ~TmEmpty(tm)
    /\ \E order \in 1..MaxOrder, save \in BOOLEAN :
          BuildCall(order, save, FALSE)

----------------------------------------------------------------------------
(* The seeded random source (module random)                                *)
(*                                                                         *)
(* A seed fixes the sequence of raw values the source yields.  rngTape is  *)
(* that sequence as far as it has been drawn, rngPos the number of values  *)
(* consumed since random.seed: a value beyond the tape is any value, and   *)
(* is recorded; a value on the tape is the recorded one.                   *)

\* the values a source that forgets its seed may yield
NextRawsUnseeded == 0..DrawRes

\* the values the next draw may yield
NextRaws ==
    IF rngPos < Len(rngTape) THEN {rngTape[rngPos + 1]} ELSE 0..DrawRes

\* the source after the draw yielded r
Drawn(r) ==
    /\ rngTape' = IF rngPos < Len(rngTape) THEN rngTape
                  ELSE Append(rngTape, r)
    /\ rngPos' = rngPos + 1

\* random.randint(0, hi) from the raw value r
RandInt(r, hi) == r % (hi + 1)

\* random.random() from the raw value r: a multiple of 2^-53 below 1, the
\* largest one not above r/DrawRes, and the largest of all for r = DrawRes
Random(r) ==
    [int |-> 0,
     frac |-> IF r = DrawRes
              THEN Truncate([m \in 1..Limbs |-> Limb - 1], MantissaBits)
              ELSE Truncate(QuotientLimbs(r, DrawRes), MantissaBits)]

\* random.seed(s) with a seed not used before
Seed ==
    /\ pc = "idle" /\ rngPos > 0
    /\ rngTape' = <<>> /\ rngPos' = 0 /\ ref' = NoRef
    /\ ret' = NoRet /\ n_simulations' = 0
    /\ UNCHANGED <<codecVars, midiVars, corpusVars, tableVars>>
    /\ UNCHANGED <<pc, sims_left, current_str, comp>>

\* random.seed(s) with the seed used last
Reseed ==
    /\ pc = "idle" /\ rngPos > 0
    /\ rngPos' = 0
    /\ ret' = NoRet /\ n_simulations' = 0
    /\ UNCHANGED <<codecVars, midiVars, corpusVars, tableVars, rngTape, ref>>
    /\ UNCHANGED <<pc, sims_left, current_str, comp>>

----------------------------------------------------------------------------
(* Instrument.compose                                                      *)

\* str.strip() of blanks
RECURSIVE Strip(_)
Strip(s) ==
    IF s # <<>> /\ Head(s) = " " THEN Strip(Tail(s))
    ELSE IF s # <<>> /\ s[Len(s)] = " " THEN Strip(SubSeq(s, 1, Len(s) - 1))
    ELSE s

\* the events of a group, or the first error of their decoding
GroupOf(results) ==
    IF FirstFailed(results) = 0 THEN Ok(Values(results))
    ELSE Raise(results[FirstFailed(results)].err)

\* [Event.from_string(s) for s in strs]
DecodeGroup(strs) ==
    GroupOf([i \in 1..Len(strs) |-> EventFromString(strs[i])])

\* the last element of a list
Last(xs) == xs[Len(xs)]

\* lines 172-181: the seed output, Event.from_string of every "&" piece of
\* the last "+" segment of the initial state key
SeedGroup(key) == DecodeGroup(Split(Last(Split(key, "+")), "&"))

\* [ev.strip() for ev in pieces]
Stripped(pieces) == [i \in 1..Len(pieces) |-> Strip(pieces[i])]

\* lines 216-219: the events of a successor key
SuccessorGroup(key) == DecodeGroup(Stripped(Split(key, "&")))

\* note_mapping[row]: the positions of the columns with an entry > 0 in the
\* row at position r, in column order
RECURSIVE SuccessorsFrom(_, _, _)
SuccessorsFrom(t, r, c) ==
    IF c > Len(t.columns) THEN <<>>
    ELSE IF t.val[r][c][1] > 0 THEN <<c>> \o SuccessorsFrom(t, r, c + 1)
    ELSE SuccessorsFrom(t, r, c + 1)

\* every column taken as a successor, whatever its entry
SuccessorsAll(t, r) == [c \in 1..Len(t.columns) |-> c]

Successors(t, r) == SuccessorsFrom(t, r, 1)

\* sum_probas after the first k successors of row r: the float sum, each
\* addition rounded
RECURSIVE CumSum(_, _, _, _)
CumSum(t, r, succ, k) ==
    IF k = 0 THEN [int |-> 0, frac |-> NoFrac]
    ELSE FloatAdd(CumSum(t, r, succ, k - 1), FloatOf(t.val[r][succ[k]]))

\* the first k with rand_u < sum_probas, rand_u the draw of the raw value;
\* 0 if the loop ends without one
FirstExceeding(t, r, succ, raw) ==
    LET rand_u == Random(raw)
        hit == {k \in 1..Len(succ) :
                   FloatLess(rand_u, CumSum(t, r, succ, k))} IN
    IF hit = {} THEN 0 ELSE CHOOSE k \in hit : \A j \in hit : k <= j

\* the successor at the position where the sum exceeds the draw
SelectedAtHit(k, n_successors) == k

\* lines 213-215: i -= 1, then successors[i]; the index -1 is the last one
Selected(k, n_successors) == IF k = 1 THEN n_successors ELSE k - 1

\* the state key kept as it is
KeptKey(key, next_event_str) == key

\* lines 223-227: the sliding window
SlideKey(key, next_event_str) ==
    LET first_p_idx == Find(key, "+") IN
    IF first_p_idx = 0 THEN next_event_str
    ELSE SubSeq(key, first_p_idx + 1, Len(key)) \o <<"+">> \o next_event_str

Raised(err) == [status |-> "raised", val |-> <<>>, err |-> err]

Returned(v) == [status |-> "returned", val |-> v, err |-> "none"]

\* compose raises: the call ends, its locals are gone
ComposeRaises(err) ==
    /\ pc' = "idle" /\ ret' = Raised(err)
    /\ sims_left' = 0 /\ current_str' = <<>> /\ comp' = <<>>

\* lines 172-181: the seed output is the first group of the composition
ComposeSeeded(n, key, group) ==
    IF ~group.ok THEN ComposeRaises(group.err)
    ELSE /\ current_str' = key
         /\ comp' = <<group.val>>
         /\ sims_left' = n
         /\ pc' = "compose"
         /\ ret' = NoRet

\* lines 168-181: the initial state is the row at position rand_num
ComposeInitial(n, index, rand_num) ==
    IF rand_num + 1 > Len(index) THEN ComposeRaises("IndexError")
    ELSE ComposeSeeded(n, index[rand_num + 1], SeedGroup(index[rand_num + 1]))

\* build_tm called whether or not the instrument has a table
ComposeOutcomesAlwaysBuild ==
    UNION {CallOutcomes(1, save, load) : save \in BOOLEAN, load \in BOOLEAN}

\* lines 164-165: build_tm(save_path=tm_save_path, load_path=tm_load_path)
\* if the table is empty; the two paths are read in that case only
ComposeOutcomes ==
    IF TmEmpty(tm)
    THEN UNION {CallOutcomes(1, save, load) :
                   save \in BOOLEAN, load \in BOOLEAN}
    ELSE {[tm |-> tm, file |-> file, saved |-> saved, err |-> NoError,
           call |-> last]}

\* compose(n_simulations=n, tm_save_path, tm_load_path) up to the loop:
\* build_tm if the table is empty, the random initial state, the seed output.
\* The random source was just seeded; a call on a seed used before asks for
\* as many simulations as the first call on that seed did.
ComposeStart ==
    /\ pc = "idle" /\ rngPos = 0
    /\ \E n \in 0..MaxSim :
       /\ ref.set => n = ref.n
       /\ n_simulations' = n
       /\ \E o \in ComposeOutcomes :
          /\ tm' = o.tm /\ file' = o.file /\ saved' = o.saved
          /\ last' = o.call
          /\ IF o.err.raised
             THEN ComposeRaises(o.err.what) /\ UNCHANGED rngVars
             ELSE \E raw \in NextRaws :
                  /\ Drawn(raw)
                  /\ ComposeInitial(n, o.tm.index,
                                    RandInt(raw, Len(o.tm.columns) - 1))
    /\ UNCHANGED <<codecVars, midiVars, corpusVars, ref>>

\* lines 216-227: the group of the successor is appended, the window slides
ComposeAppend(next_event_str, group) ==
    IF ~group.ok THEN ComposeRaises(group.err)
    ELSE /\ comp' = Append(comp, group.val)
         /\ current_str' = SlideKey(current_str, next_event_str)
         /\ sims_left' = sims_left - 1
         /\ UNCHANGED <<pc, ret>>

\* lines 209-229: k is the position where the sum exceeds the draw, 0 if the
\* loop ends without a break
ComposeSelect(successors, k) ==
    IF k = 0
    THEN /\ sims_left' = sims_left - 1
         /\ UNCHANGED <<pc, ret, current_str, comp>>
    ELSE ComposeAppend(
             tm.columns[successors[Selected(k, Len(successors))]],
             SuccessorGroup(
                 tm.columns[successors[Selected(k, Len(successors))]]))

\* the step that fails on a row without successors
ComposeFromRaising(r, successors) ==
    IF Len(successors) = 0
    THEN ComposeRaises("IndexError") /\ UNCHANGED rngVars
    ELSE \E raw \in NextRaws :
         /\ Drawn(raw)
         /\ ComposeSelect(successors,
                          FirstExceeding(tm, r, successors, raw))

\* lines 199-229 in the row at position r with these successors
ComposeFrom(r, successors) ==
    IF Len(successors) = 0
    THEN /\ comp' = Append(comp, comp[Len(comp)])
         /\ sims_left' = sims_left - 1
         /\ UNCHANGED <<pc, ret, current_str, rngVars>>
    ELSE \E raw \in NextRaws :
         /\ Drawn(raw)
         /\ ComposeSelect(successors,
                          FirstExceeding(tm, r, successors, raw))

\* note_mapping[current_str] and the row: KeyError if it is no row label
ComposeAt(r) ==
    IF r = 0 THEN ComposeRaises("KeyError") /\ UNCHANGED rngVars
    ELSE ComposeFrom(r, Successors(tm, r))

\* one iteration of the loop of compose (lines 192-229)
ComposeStep ==
    /\ pc = "compose" /\ sims_left > 0
    /\ ComposeAt(IndexOf(tm.index, current_str))
    /\ UNCHANGED <<codecVars, midiVars, corpusVars, tableVars, ref>>
    /\ UNCHANGED n_simulations

\* return comp
ComposeReturn ==
    /\ pc = "compose" /\ sims_left = 0
    /\ pc' = "idle" /\ ret' = Returned(comp)
    /\ ref' = IF ~ref.set
              THEN [set |-> TRUE, tm |-> tm, n |-> n_simulations, out |-> comp]
              ELSE ref
    /\ current_str' = <<>> /\ comp' = <<>>
    /\ UNCHANGED <<codecVars, midiVars, corpusVars, tableVars, rngVars>>
    /\ UNCHANGED <<n_simulations, sims_left>>

----------------------------------------------------------------------------
(* Instrument.to_midi: the tracks of the MidiFile                          *)
(*                                                                         *)
(* A message is [type, channel, data, velocity, time]: data is the note of *)
(* note_on and note_off, the program of program_change, the tempo of       *)
(* set_tempo; time is the delta time in ticks.  The file mid.save writes   *)
(* is not modelled: the result of to_midi is the list mid.tracks.          *)

Msg(type, channel, data, velocity, time) ==
    [type |-> type, channel |-> channel, data |-> data,
     velocity |-> velocity, time |-> time]

\* Note.to_midi_number: note_base and accidental_map
NoteBase ==
    [n \in {"C", "D", "E", "F", "G", "A", "B"} |->
        CASE n = "C" -> 0 [] n = "D" -> 2 [] n = "E" -> 4 [] n = "F" -> 5
          [] n = "G" -> 7 [] n = "A" -> 9 [] n = "B" -> 11]

AccidentalMap ==
    [a \in Accidentals |->
        CASE a = <<>> -> 0 [] a = <<"#">> -> 1 [] a = <<"b">> -> 0 - 1
          [] a = <<"x">> -> 2 [] a = <<"b", "b">> -> 0 - 2]

\* An optional int: a number or None
Number(n) == [some |-> TRUE, val |-> n]
NoNumber == [some |-> FALSE, val |-> 0]

\* Note.to_midi_number: None for a rest
ToMidiNumber(n) ==
    IF is_rest(n) THEN Ok(NoNumber)
    ELSE IF n.name \notin DOMAIN NoteBase THEN Raise("ValueError")
    ELSE IF n.accidental \notin DOMAIN AccidentalMap THEN Raise("ValueError")
    ELSE IF n.octave = <<>> THEN Raise("ValueError")
    ELSE IF ~StrToInt(n.octave).ok THEN Raise("ValueError")
    ELSE Ok(Number((StrToInt(n.octave).val + 1) * 12
                   + NoteBase[n.name] + AccidentalMap[n.accidental]))

\* int(x) of the fraction num/den: truncation toward zero
IntOfFraction(num, den) ==
    IF num >= 0 THEN num \div den ELSE 0 - ((0 - num) \div den)

\* Instrument._event_duration_ticks
EventDurationTicks(event, divisions) ==
    IF event.duration.some /\ StrToInt(event.duration.val).ok
    THEN StrToInt(event.duration.val).val
    ELSE IntOfFraction(event.type[1] * divisions, event.type[2])

\* the midi numbers of the notes of an event that are not rests
RECURSIVE Sounding(_)
Sounding(numbers) ==
    IF numbers = <<>> THEN <<>>
    ELSE IF Head(numbers).some
    THEN <<Head(numbers).val>> \o Sounding(Tail(numbers))
    ELSE Sounding(Tail(numbers))

\* the note_on messages of an event without the time that is pending
NoteOnsNoDelay(midi_notes, pending_time, channel, velocity) ==
    [k \in 1..Len(midi_notes) |->
        Msg("note_on", channel, midi_notes[k], velocity, 0)]

\* lines 280-285: the note_on messages of an event
NoteOns(midi_notes, pending_time, channel, velocity) ==
    [k \in 1..Len(midi_notes) |->
        Msg("note_on", channel, midi_notes[k], velocity,
            IF k = 1 THEN pending_time ELSE 0)]

\* lines 287-291: the note_off messages of an event
NoteOffs(midi_notes, event_duration, channel) ==
    [k \in 1..Len(midi_notes) |->
        Msg("note_off", channel, midi_notes[k], 0,
            IF k = 1 THEN event_duration ELSE 0)]

\* the end of the track without the time that is pending
EndOfTrackAtZero(pending_time) == Msg("end_of_track", 0, 0, 0, 0)

\* lines 293-296
EndOfTrack(pending_time) ==
    Msg("end_of_track", 0, 0, 0,
        IF pending_time > 0 THEN pending_time ELSE 0)

\* mido.Message refuses a data byte outside 0..127
DataByte(b) == b \in 0..127

\* Instrument._write_voice_track from the event at position k on
RECURSIVE WriteVoiceFrom(_, _, _, _, _, _, _)

\* lines 276-291 for one event, whose notes have the midi numbers `numbers`
WriteEvent(events, k, pending_time, track, channel, velocity, divisions, event_duration, numbers) ==
    IF FirstFailed(numbers) # 0
    THEN Raise(numbers[FirstFailed(numbers)].err)
    ELSE IF Sounding(Values(numbers)) = <<>>
    THEN WriteVoiceFrom(events, k + 1, pending_time + event_duration, track,
                        channel, velocity, divisions)
    ELSE IF \E b \in Range(Sounding(Values(numbers))) : ~DataByte(b)
    THEN Raise("ValueError")
    ELSE WriteVoiceFrom(events, k + 1, 0,
             track
               \o NoteOns(Sounding(Values(numbers)), pending_time, channel,
                          velocity)
               \o NoteOffs(Sounding(Values(numbers)), event_duration,
                           channel),
             channel, velocity, divisions)

WriteVoiceFrom(events, k, pending_time, track, channel, velocity, divisions) ==
    IF k > Len(events) THEN Ok(Append(track, EndOfTrack(pending_time)))
    ELSE WriteEvent(events, k, pending_time, track, channel, velocity,
                    divisions, EventDurationTicks(events[k], divisions),
                    [i \in 1..Len(events[k].notes) |->
                        ToMidiNumber(events[k].notes[i])])

\* Instrument._write_voice_track
WriteVoiceTrack(events, track, channel, velocity, divisions) ==
    WriteVoiceFrom(events, 1, 0, track, channel, velocity, divisions)

\* utils.GM_PROGRAMS: the program and whether it is percussion, by name
GmPrograms ==
    [name \in {"piano", "drums"} |->
        IF name = "piano" THEN <<0, FALSE>> ELSE <<0, TRUE>>]

\* name.lower() on the names the model uses
Lower(name) == IF name = "Piano" THEN "piano" ELSE name

\* Instrument._resolve_instrument
ResolveInstrument(name) ==
    IF Lower(name) \notin DOMAIN GmPrograms THEN Raise("ValueError")
    ELSE Ok(GmPrograms[Lower(name)])

\* mido.bpm2tempo: int(round(60 * 1e6 / bpm)), round to the nearest, ties to
\* the even one
Bpm2Tempo(bpm) ==
    IF 2 * (60000000 % bpm) < bpm THEN 60000000 \div bpm
    ELSE IF 2 * (60000000 % bpm) > bpm THEN (60000000 \div bpm) + 1
    ELSE IF (60000000 \div bpm) % 2 = 0 THEN 60000000 \div bpm
    ELSE (60000000 \div bpm) + 1

\* lines 381-385: the messages a track starts with
TrackStart(a, channel, midi_channel, program) ==
    (IF channel = 0
     THEN <<Msg("set_tempo", 0,
                Bpm2Tempo(IF a.tempo.some THEN a.tempo.val ELSE a.self_tempo),
                0, 0)>>
     ELSE <<>>)
    \o (IF ~program[2]
        THEN <<Msg("program_change", midi_channel, program[1], 0, 0)>>
        ELSE <<>>)

\* lines 372-379: the channel of the track
MidiChannel(is_percussion, melodic_channel) ==
    IF is_percussion THEN 9
    ELSE IF melodic_channel = 9 THEN 10 ELSE melodic_channel

\* lines 370-387 from the voice at position channel + 1 on
RECURSIVE TracksFrom(_, _, _, _, _, _)

\* lines 381-387: the track is written and added to the file
TrackWritten(a, voice_sequences, names, channel, melodic_channel, tracks, written) ==
    IF ~written.ok THEN written
    ELSE TracksFrom(a, voice_sequences, names, channel + 1, melodic_channel,
                    Append(tracks, written.val))

\* lines 371-387 for one voice, `resolved` being its program
TrackOf(a, voice_sequences, names, channel, melodic_channel, tracks, resolved, midi_channel) ==
    IF ~resolved.ok THEN resolved
    ELSE IF midi_channel \notin 0..15 THEN Raise("ValueError")
    ELSE TrackWritten(a, voice_sequences, names, channel,
             IF resolved.val[2] THEN melodic_channel ELSE midi_channel + 1,
             tracks,
             WriteVoiceTrack(voice_sequences[channel + 1],
                 TrackStart(a, channel, midi_channel, resolved.val),
                 midi_channel, a.velocity, a.divisions))

TracksFrom(a, voice_sequences, names, channel, melodic_channel, tracks) ==
    IF channel >= Len(voice_sequences) THEN Ok(tracks)
    ELSE TrackOf(a, voice_sequences, names, channel, melodic_channel, tracks,
                 ResolveInstrument(names[channel + 1]),
                 IF ResolveInstrument(names[channel + 1]).ok
                 THEN MidiChannel(
                          ResolveInstrument(names[channel + 1]).val[2],
                          melodic_channel)
                 ELSE 0)

\* The argument `instruments` of to_midi: None, a str (val holds it alone),
\* or a list of str
NoTags == [kind |-> "none", val |-> <<>>]
OneTag(name) == [kind |-> "str", val |-> <<name>>]
Tags(names) == [kind |-> "list", val |-> names]

\* the check of the list of tags that lets a longer list pass
TagsMismatchShorterOnly(instruments, n) == Len(instruments) < n

\* line 364
TagsMismatch(instruments, n) == Len(instruments) # n

\* lines 359-366: instrument_names for n voices
InstrumentNames(instruments, n) ==
    IF instruments.kind = "none" THEN Ok([k \in 1..n |-> "piano"])
    ELSE IF instruments.kind = "str"
    THEN Ok([k \in 1..n |-> instruments.val[1]])
    ELSE IF TagsMismatch(instruments.val, n) THEN Raise("ValueError")
    ELSE Ok(instruments.val)

\* lines 350-356: the time steps regrouped by voice
VoiceSequences(events) ==
    IF \E t \in 1..Len(events) : Len(events[t]) # Len(events[1])
    THEN Raise("ValueError")
    ELSE Ok([idx \in 1..Len(events[1]) |->
                [t \in 1..Len(events) |-> events[t][idx]]])

\* lines 358-389
ToMidiNamed(a, voice_sequences, names) ==
    IF ~names.ok THEN names
    ELSE TracksFrom(a, voice_sequences, names.val, 0, 0, <<>>)

\* lines 346-389
ToMidiVoices(a, voice_sequences) ==
    IF ~voice_sequences.ok THEN voice_sequences
    ELSE ToMidiNamed(a, voice_sequences.val,
                     InstrumentNames(a.instruments,
                                     Len(voice_sequences.val)))

\* Instrument.to_midi(events, output_path, tempo, velocity, instruments): a
\* flat list is a list of Events, the other lists are time steps
ToMidi(a) ==
    IF a.events = <<>> THEN Raise("ValueError")
    ELSE ToMidiVoices(a, IF a.flat THEN Ok(<<a.events>>)
                         ELSE VoiceSequences(a.events))

\* "(G,2)R|>>1/4|1.5", a rest whose duration is not an integer
E4 == Event(<<Note(ClefG, "R", <<>>, <<>>, <<>>)>>, <<1, 4>>,
            Some(<<"1", ".", "5">>))

MidiEvents == {E1, E2, E3, E4}

\* the time steps: no, one or two voices
MidiTimeSteps == SeqsOf(MidiEvents, 0, 2)

MidiTags ==
    {NoTags, OneTag("Piano"), Tags(<<>>), Tags(<<"piano">>),
     Tags(<<"piano", "drums">>), Tags(<<"kazoo">>)}

\* velocity: int = 127, the default of to_midi
DefaultVelocity == 127

\* the calls of to_midi: a flat list of Events or a list of time steps, on an
\* instrument with 1 or 4 divisions and the tempo 120
MidiCalls ==
    {[flat |-> x[1][1], events |-> x[1][2], instruments |-> x[2],
      tempo |-> x[3], velocity |-> DefaultVelocity, divisions |-> x[4],
      self_tempo |-> 120] :
        x \in (({TRUE} \X SeqsOf(MidiEvents, 0, MaxFlatSteps))
                  \cup ({FALSE} \X SeqsOf(MidiTimeSteps, 0, MaxSteps)))
              \X MidiTags \X {NoNumber, Number(100)} \X {1, 4}}

\* the instrument of Scenario A, whose table is not built
MidiInit ==
    /\ CodecOff /\ InstrumentInit({ScenarioA}) /\ voices = <<1>>
    /\ midi_args \in MidiCalls /\ midi = NoMidi

\* the call of to_midi
ToMidiCall ==
    /\ midi = NoMidi
    /\ midi' = ToMidi(midi_args)
    /\ UNCHANGED midi_args
    /\ UNCHANGED <<codecVars, corpusVars, tableVars, composeVars, rngVars, ref>>

MidiNext == ToMidiCall

SpecMidi == MidiInit /\ [][MidiNext]_vars

----------------------------------------------------------------------------
(* The specifications                                                      *)

\* the corpora of the life-cycle specification
ComposeCorpora ==
    {<<OneInstrument(1 :> <<E1, E1, E2>>)>>,
     <<OneInstrument(1 :> <<E2>>),
       OneInstrument((1 :> <<E1>>) @@ (2 :> <<E3, E1>>))>>,
     <<OneInstrument((1 :> <<E1, E2, E1>>) @@ (2 :> <<E3, E1, E3, E3>>))>>}

Init == CodecOff /\ MidiOff /\ InstrumentInit(ComposeCorpora)

Next ==
    \/ BuildTm
    \/ BuildAndSaveTm
    \/ LoadTm
    \/ Seed
    \/ Reseed
    \/ ComposeStart
    \/ ComposeStep
    \/ ComposeReturn

Spec == Init /\ [][Next]_vars

\* a voice in which E1 is followed by E1 four times, by E2 once and by E3
\* once (the last event is followed by the first): the row of E1 in the
\* table of order 1 holds 4/6, 1/6 and 1/6
LongRowCorpus == <<OneInstrument(1 :> <<E1, E1, E1, E1, E1, E2, E1, E3>>)>>

LongRowInit ==
    CodecOff /\ MidiOff /\ InstrumentInit({LongRowCorpus}) /\ voices = <<1>>

\* compose builds the table itself, of order 1, and may save it; the saved
\* table may be loaded and compose called again with the seed used last
LongRowNext ==
    \/ LoadTm
    \/ Seed
    \/ Reseed
    \/ ComposeStart
    \/ ComposeStep
    \/ ComposeReturn

SpecLongRow == LongRowInit /\ [][LongRowNext]_vars

\* an instrument whose table is built, saved and built again
RebuildNext ==
    \/ BuildTm
    \/ BuildAndSaveTm
    \/ RebuildTm

SpecRebuild == Init /\ [][RebuildNext]_vars

BuildInit == CodecOff /\ MidiOff /\ InstrumentInit(BuildCorpora)

BuildNext == BuildTm

SpecBuild == BuildInit /\ [][BuildNext]_vars

----------------------------------------------------------------------------
(* build_tm of the earlier revision (lib/instrument.py), for an instrument *)
(* of one score with one instrument and voices = [1]: the table is square, *)
(* its labels the events of the voice, and the transition from the last    *)
(* event back to the first is not counted.                                 *)

\* unique_events_str
EarlierUnique(stream) == {EventRepr(stream[i]) : i \in 1..Len(stream)}

\* the table after the loop of lines 78-84, its rows and columns labelled
\* by labels
EarlierCounts(stream, labels) ==
    [r \in 1..Len(labels) |-> [c \in 1..Len(labels) |->
        Cardinality({i \in 1..(Len(stream) - 1) :
                        /\ EventRepr(stream[i]) = labels[r]
                        /\ EventRepr(stream[i + 1]) = labels[c]})]]

\* the tables build_tm can make of the stream: one for each enumeration of
\* the set of its events
EarlierTables(stream) ==
    {[index |-> labels, columns |-> labels,
      val |-> Normalize(EarlierCounts(stream, labels))] :
        labels \in Perms(EarlierUnique(stream))}

\* the single voices of the earlier revision's corpora
EarlierCorpora ==
    {<<OneInstrument(1 :> s)>> : s \in SeqsOf(EventPool, 1, MaxEarlierLen)}

EarlierInit ==
    CodecOff /\ MidiOff /\ InstrumentInit(EarlierCorpora) /\ voices = <<1>>

\* build_tm() of the earlier revision
EarlierBuildTm ==
    /\ pc = "idle" /\ last.op = "none"
    /\ tm' \in EarlierTables(parsed_mxls[1][1][1])
    /\ last' = [op |-> "earlier", order |-> 1, save |-> FALSE,
                err |-> NoError]
    /\ UNCHANGED <<file, saved>>
    /\ UNCHANGED <<codecVars, midiVars, corpusVars, composeVars, rngVars, ref>>

EarlierNext == EarlierBuildTm

SpecEarlier == EarlierInit /\ [][EarlierNext]_vars

\* The tables of a CSV file that build_tm did not write: two states, each
\* row without a successor, with one, or with two
HandMadeRows == {<<<<0, 1>>, <<0, 1>>>>, <<<<1, 1>>, <<0, 1>>>>,
                 <<<<0, 1>>, <<1, 1>>>>, <<<<1, 2>>, <<1, 2>>>>}

HandMadeTables ==
    {[index |-> <<EventRepr(E1), EventRepr(E2)>>,
      columns |-> <<EventRepr(E1), EventRepr(E2)>>,
      val |-> <<a, b>>] : a \in HandMadeRows, b \in HandMadeRows}

\* an instrument and, at the path it loads its table from, such a file
DeadEndInit ==
    /\ CodecOff /\ MidiOff
    /\ parsed_mxls = <<OneInstrument(1 :> <<E1, E1>>)>> /\ voices = <<1>>
    /\ tm = EmptyTm
    /\ file \in {ToCsv(t) : t \in HandMadeTables}
    /\ saved = EmptyTm /\ last = NoCall
    /\ pc = "idle" /\ n_simulations = 0
    /\ sims_left = 0 /\ current_str = <<>> /\ comp = <<>> /\ ret = NoRet
    /\ rngTape = <<>> /\ rngPos = 0 /\ ref = NoRef

DeadEndNext ==
    \/ LoadTm
    \/ ComposeStart
    \/ ComposeStep
    \/ ComposeReturn

SpecDeadEnd == DeadEndInit /\ [][DeadEndNext]_vars

\* a value of the codec checks, and the instrument of Scenario A, which is
\* not used
CodecSpecInit ==
    CodecInit /\ MidiOff /\ InstrumentInit({ScenarioA}) /\ voices = <<1>>

SpecCodec == CodecSpecInit /\ [][CodecNext]_vars

----------------------------------------------------------------------------
(* The codec (specification SpecCodec)                                     *)

\* C1: decoding the string of a valid Note gives a Note equal to it, and
\* decoding the string of a valid Event gives an Event equal to it.
C1_RoundTrip == cpc = "decoded" => cdec.ok /\ cdec.val = cx

\* a chord whose first note has the accidental "bb" and two articulations
\* was encoded and decoded
C1_Witness ==
    /\ cpc = "decoded" /\ ckind = "event" /\ is_chord(cx)
    /\ cx.notes[1].accidental = <<"b", "b">>
    /\ Len(cx.notes[1].articulations) = 2
    /\ cdec.ok

\* C2: two valid Notes that differ, and two valid Events that differ, have
\* different strings.
C2_Injective == cpc = "paired" /\ cx # cy => cenc # cenc2

\* two notes that differ in their articulations only were both encoded
C2_Witness ==
    /\ cpc = "paired" /\ ckind = "note"
    /\ cx.articulations # cy.articulations
    /\ [cx EXCEPT !.articulations = <<>>] = [cy EXCEPT !.articulations = <<>>]

----------------------------------------------------------------------------
(* build_tm (specification SpecBuild)                                      *)

\* build_tm returned a table built from the corpus
Built == last.op = "build" /\ ~last.err.raised

\* C3: in every table build_tm returns, the entries of every row are not
\* negative and sum to 1.
C3_RowStochastic ==
    Built =>
        \A r \in 1..Len(tm.index) :
            /\ \A c \in 1..Len(tm.columns) : tm.val[r][c][1] >= 0
            /\ SumFractions(tm.val[r]) = <<1, 1>>

\* a table was built that has a row with two successors
C3_Witness ==
    /\ Built /\ ~TmEmpty(tm)
    /\ \E r \in 1..Len(tm.index) : Len(Successors(tm, r)) >= 2

\* C4: when order >= min_voice_length, build_tm raises the error that names
\* the order and the minimum voice length, and the instrument has no table.
C4_OrderPrecondition ==
    /\ last.op = "build"
    /\ voices # <<>>
    /\ last.order >= MinVoiceLength(VoicesDict(parsed_mxls, voices))
    => /\ last.err = ErrorOf("order", last.order,
                             MinVoiceLength(VoicesDict(parsed_mxls, voices)))
       /\ TmEmpty(tm)

\* build_tm was called with the order equal to the minimum voice length, 2
C4_Witness ==
    /\ last.op = "build" /\ voices = <<1, 2>>
    /\ last.order = MinVoiceLength(VoicesDict(parsed_mxls, voices))
    /\ last.err.what = "order" /\ last.err.min_voice_length = last.order
    /\ last.order > 1

\* Scenario A: build_tm(order=1) returned the table of the single voice
\* [E1, E2, E3]
ScenarioABuilt ==
    /\ parsed_mxls = ScenarioA /\ voices = <<1>>
    /\ Built /\ last.order = 1

\* the rows of the table are the strings of these events
RowsAre(events) == Range(tm.index) = {EventRepr(e) : e \in events}

\* every row has the probability 1 at the column succ gives it and 0
\* elsewhere
RowsGoTo(succ) ==
    \A r \in 1..Len(tm.index) : \A c \in 1..Len(tm.columns) :
        tm.val[r][c] =
            IF tm.columns[c] = succ[tm.index[r]] THEN <<1, 1>> ELSE <<0, 1>>

\* C7 as the specification states it: in Scenario A the rows are E1 and E2
\* only, each with probability 1 at its successor.
C7_RowsE1E2 ==
    ScenarioABuilt =>
        /\ RowsAre({E1, E2})
        /\ RowsGoTo((EventRepr(E1) :> EventRepr(E2))
                    @@ (EventRepr(E2) :> EventRepr(E3))
                    @@ (EventRepr(E3) :> EventRepr(E3)))

\* C7: in Scenario A the rows are E1, E2 and E3, each with probability 1 at
\* its successor; the successor of E3 is E1, by the wraparound.
C7_RowsE1E2E3 ==
    ScenarioABuilt =>
        /\ RowsAre({E1, E2, E3})
        /\ RowsGoTo((EventRepr(E1) :> EventRepr(E2))
                    @@ (EventRepr(E2) :> EventRepr(E3))
                    @@ (EventRepr(E3) :> EventRepr(E1)))

\* the table of Scenario A was built, and E3 is a row of it
C7_Witness == ScenarioABuilt /\ EventRepr(E3) \in Range(tm.index)

\* Scenario C: build_tm(order=2) returned the table of two voices of equal
\* length 5
ScenarioCBuilt ==
    /\ parsed_mxls \in FiveLongCorpora /\ voices = <<1, 2>>
    /\ Built /\ last.order = 2

\* the five windows of two steps of Scenario C, the last one wrapped
ScenarioCWindows ==
    {Group(VoicesDict(parsed_mxls, voices), voices, i) \o <<"+">>
        \o Group(VoicesDict(parsed_mxls, voices), voices, (i + 1) % 5) :
        i \in 0..4}

\* the groups of the five steps of Scenario C
ScenarioCGroups ==
    {Group(VoicesDict(parsed_mxls, voices), voices, i) : i \in 0..4}

\* C8 as the specification states it: in Scenario C the table has exactly 5
\* rows and at most 5 columns.
C8_FiveRows ==
    ScenarioCBuilt => Len(tm.index) = 5 /\ Len(tm.columns) <= 5

\* C8: in Scenario C the rows are the distinct windows among the five
\* wrapped ones, so there are at most 5 and exactly 5 only when the five
\* windows differ; the columns are the distinct groups, at most 5.
C8_DistinctWindows ==
    ScenarioCBuilt =>
        /\ Range(tm.index) = ScenarioCWindows
        /\ Len(tm.index) = Cardinality(ScenarioCWindows)
        /\ Len(tm.index) <= 5
        /\ Range(tm.columns) = ScenarioCGroups
        /\ Len(tm.columns) = Cardinality(ScenarioCGroups)
        /\ Len(tm.columns) <= 5

\* the table of a Scenario C corpus with a repeated window was built: it has
\* 4 rows
C8_Witness == ScenarioCBuilt /\ Len(tm.index) = 4

----------------------------------------------------------------------------
(* compose and the persisted table (specifications Spec and SpecLongRow)   *)

\* C5: a call of compose that returns, returns n_simulations + 1 groups.
\* (It does not in SpecLongRow: the float sum of 4/6, 1/6 and 1/6 is
\* 1 - 2^-53, the largest value random.random() returns is not below it,
\* and the step then appends nothing.)
C5_GeneratorLength ==
    pc = "idle" /\ ret.status = "returned"
        => Len(ret.val) = n_simulations + 1

\* C6: inside compose, at the initial state and after every update of the
\* window, the current state key is a row of the table and the row has a
\* successor with a probability above 0.
C6_NoDeadEnd ==
    pc = "compose" =>
        /\ IndexOf(tm.index, current_str) # 0
        /\ Len(Successors(tm, IndexOf(tm.index, current_str))) > 0

\* the window of a table of order 2 was updated twice
C6_Witness ==
    /\ pc = "compose" /\ n_simulations = 2 /\ sims_left = 0
    /\ Len(comp) = 3 /\ last.order = 2
    /\ IndexOf(tm.index, current_str) # 0

\* a call of compose is about to return, and a call made earlier on the same
\* seed, with the same n_simulations, has returned
SecondReturn ==
    /\ pc = "compose" /\ sims_left = 0
    /\ ref.set /\ ref.n = n_simulations

\* C9: a call of compose on the same table, with the same n_simulations and
\* the same seed as an earlier call, returns the composition the earlier
\* call returned.
C9_SeededDeterminism == SecondReturn /\ ref.tm = tm => comp = ref.out

\* the second of two such calls with n_simulations = 2 is about to return a
\* composition that took both successors of a row
C9_Witness ==
    /\ SecondReturn /\ ref.tm = tm /\ n_simulations = 2
    /\ comp = ref.out
    /\ comp[2] # comp[3]

\* the table load_path gives is the table save_path wrote
LoadedAsSaved == last.op = "load" /\ ~last.err.raised => tm = saved

\* compose on the loaded table is about to return what it returned on the
\* built one, for the same seed and n_simulations
LoadedComposesAsBuilt ==
    last.op = "load" /\ ~last.err.raised /\ SecondReturn /\ ref.tm = saved
        => comp = ref.out

\* C10: the table load_path gives is the table save_path wrote: the same row
\* labels, the same column labels in the same order, the same probabilities;
\* and compose on the loaded table returns what it returned on the built
\* one, for the same seed and n_simulations.  (It does not in SpecLongRow:
\* to_csv writes 1/6 as 0.16666666666666666, read_csv reads the text as
\* 0.1666666666666666, two doubles below 1/6, and a row that summed to 1 on
\* the built table sums to less on the loaded one.)
C10_CsvRoundTrip == LoadedAsSaved /\ LoadedComposesAsBuilt

----------------------------------------------------------------------------
(* Decoding strings that are not encodings                                 *)

\* the string has the two characters ">>" somewhere
HasSeparator(s) == \E i \in 1..(Len(s) - 1) : s[i] = ">" /\ s[i + 1] = ">"

\* where its last ">>" starts
LastSeparator(s) ==
    CHOOSE i \in 1..(Len(s) - 1) :
        /\ s[i] = ">" /\ s[i + 1] = ">"
        /\ \A j \in (i + 1)..(Len(s) - 1) : ~(s[j] = ">" /\ s[j + 1] = ">")

\* what follows the last ">>", and what precedes it
TimingSegment(s) == SubSeq(s, LastSeparator(s) + 2, Len(s))

NotesSegment(s) == SubSeq(s, 1, LastSeparator(s) - 1)

\* nothing but ">" before the last ">>": no note is written there
ZeroNotes(s) == \A i \in 1..Len(NotesSegment(s)) : NotesSegment(s)[i] = ">"

NoBarInTiming(s) ==
    \A i \in 1..Len(TimingSegment(s)) : TimingSegment(s)[i] # "|"

\* C11: Event.from_string raises ValueError, and returns no Event, for a
\* string without ">>", for one without "|" after its last ">>", and for one
\* with no note before its last ">>".
C11_FormatError ==
    cpc = "parsed" /\ ckind = "event"
        /\ (\/ ~HasSeparator(cenc)
            \/ HasSeparator(cenc) /\ NoBarInTiming(cenc)
            \/ HasSeparator(cenc) /\ ZeroNotes(cenc))
    => ~cdec.ok /\ cdec.err = "ValueError"

\* from_string refused a string whose notes all decode and whose timing has
\* a fraction but no "|"
C11_Witness ==
    /\ cpc = "parsed" /\ ckind = "event"
    /\ HasSeparator(cenc) /\ ~ZeroNotes(cenc) /\ NoBarInTiming(cenc)
    /\ FractionFromString(TimingSegment(cenc)).ok
    /\ \A ns \in Range(NonEmpty(Split(NotesSegment(cenc), ">"))) :
          NoteFromString(ns).ok
    /\ ~cdec.ok

LegalLetters == {"A", "B", "C", "D", "E", "F", "G", "R"}

\* the note strings of a string given to Note.from_string or to
\* Event.from_string
NoteStringsOf(kind, s) ==
    IF kind = "note" THEN {s}
    ELSE IF HasSeparator(s)
    THEN Range(NonEmpty(Split(NotesSegment(s), ">")))
    ELSE {}

\* the character after the clef of a note string is not a legal letter
IllegalLetter(ns) ==
    /\ Find(ns, ")") # 0 /\ Find(ns, ")") < Len(ns)
    /\ ns[Find(ns, ")") + 1] \notin LegalLetters \cup {"|"}

\* C12: from_string raises for a string with a note whose name letter is not
\* one of A B C D E F G R.
C12_IllegalLetterRejected ==
    cpc = "parsed" /\ (\E ns \in NoteStringsOf(ckind, cenc) : IllegalLetter(ns))
    => ~cdec.ok

----------------------------------------------------------------------------
(* The aggregation of the voices across the scores                         *)

\* str(e) of the events of the corpora, computed once
PoolRepr == [e \in EventPool |-> EventRepr(e)]

\* the events score k has for voice v, none if it lacks the voice (every
\* score of the corpora has one instrument)
ScoreStream(k, v) ==
    IF k <= Len(parsed_mxls) /\ v \in DOMAIN parsed_mxls[k][1]
    THEN parsed_mxls[k][1][v]
    ELSE <<>>

\* the concatenation over the scores, in their order (at most two)
ConcatenatedStream(v) == ScoreStream(1, v) \o ScoreStream(2, v)

ConcatenatedMinLength ==
    CHOOSE m \in {Len(ConcatenatedStream(v)) : v \in Range(voices)} :
        \A v \in Range(voices) : m <= Len(ConcatenatedStream(v))

\* the group of the voices' encodings at step i of the concatenations,
\* counted from 0 and wrapped
ConcatenatedGroup(i) ==
    Join([k \in 1..Len(voices) |->
             PoolRepr[ConcatenatedStream(voices[k])
                          [(i % ConcatenatedMinLength) + 1]]], <<"&">>)

ConcatenatedKey(i, order) ==
    Join([j \in 1..order |-> ConcatenatedGroup(i + j - 1)], <<"+">>)

\* the state key and the successor of every window of the concatenations
ConcatenatedPairs(order) ==
    [i \in 0..(ConcatenatedMinLength - 1) |->
        <<ConcatenatedKey(i, order), ConcatenatedGroup(i + order)>>]

\* the labels of table t are the state keys and the successors of the pairs,
\* and its entry for a state key and a successor is the share of the
\* windows with that key that are followed by that successor
CountsWindows(t, pairs) ==
    /\ Range(t.index) = {pairs[i][1] : i \in DOMAIN pairs}
    /\ Range(t.columns) = {pairs[i][2] : i \in DOMAIN pairs}
    /\ \A r \in 1..Len(t.index), c \in 1..Len(t.columns) :
          t.val[r][c] =
              Fraction(Cardinality({i \in DOMAIN pairs :
                           pairs[i] = <<t.index[r], t.columns[c]>>}),
                       Cardinality({i \in DOMAIN pairs :
                           pairs[i][1] = t.index[r]}))

\* C13: build_tm works on the concatenation, score after score, of each
\* selected voice's events: it fails exactly when the order is not below the
\* shortest concatenation, whether or not some score lacks a voice, and the
\* table it builds counts the windows of the concatenations.
C13_Concatenation ==
    last.op = "build" /\ voices # <<>> =>
        /\ last.err.raised <=> last.order >= ConcatenatedMinLength
        /\ ~last.err.raised =>
              CountsWindows(tm, ConcatenatedPairs(last.order))

\* a table was built for voices 1 and 2 of two scores, the second of which
\* lacks voice 2, and both scores have events for voice 1
C13_Witness ==
    /\ Built /\ voices = <<1, 2>> /\ Len(parsed_mxls) = 2
    /\ 2 \in DOMAIN parsed_mxls[1][1] /\ 2 \notin DOMAIN parsed_mxls[2][1]
    /\ ScoreStream(1, 1) # <<>> /\ ScoreStream(2, 1) # <<>>

\* no score has the voice
AbsentEverywhere(v) ==
    \A k \in 1..Len(parsed_mxls) : \A d \in 1..Len(parsed_mxls[k]) :
        v \notin DOMAIN parsed_mxls[k][d]

\* C14: build_tm for a voice that no score has fails with a "voice not
\* found" error, and makes no table.
C14_VoiceNotFound ==
    last.op = "build" /\ (\E v \in Range(voices) : AbsentEverywhere(v)) =>
        /\ last.err.raised /\ last.err.what = "voice not found"
        /\ TmEmpty(tm)

----------------------------------------------------------------------------
(* The fallback of the normalisation (specification SpecEarlier)           *)

EarlierBuilt == last.op = "earlier"

\* the counts of row r of the table before the normalisation
EarlierRawRow(r) == EarlierCounts(parsed_mxls[1][1][1], tm.index)[r]

\* C15: a row whose counts sum to zero before the normalisation has, after
\* it, entries that are all equal, positive, and sum to 1.
C15_Fallback ==
    EarlierBuilt =>
        \A r \in 1..Len(tm.index) :
            SumSeq(EarlierRawRow(r)) = 0 =>
                /\ \A c \in 1..Len(tm.columns) :
                      /\ tm.val[r][c] = tm.val[r][1]
                      /\ tm.val[r][c][1] > 0
                /\ SumFractions(tm.val[r]) = <<1, 1>>

\* a table of three events was built, and the row of the event that ends
\* the voice, which had no count, has 1/3 everywhere
C15_Witness ==
    /\ EarlierBuilt /\ Len(tm.index) = 3
    /\ \E r \in 1..3 :
          /\ SumSeq(EarlierRawRow(r)) = 0
          /\ tm.val[r] = <<<<1, 3>>, <<1, 3>>, <<1, 3>>>>
    /\ \E r \in 1..3 : SumSeq(EarlierRawRow(r)) > 0

\* C16: a row whose counts sum to zero has, after the normalisation, 1 in
\* the column of its own state and 0 elsewhere.
C16_SelfLoop ==
    EarlierBuilt =>
        \A r \in 1..Len(tm.index) :
            SumSeq(EarlierRawRow(r)) = 0 =>
                \A c \in 1..Len(tm.columns) :
                    tm.val[r][c] = IF tm.columns[c] = tm.index[r]
                                   THEN <<1, 1>> ELSE <<0, 1>>

----------------------------------------------------------------------------
(* The table across failed builds (specification SpecRebuild) and across   *)
(* compose (specification Spec)                                            *)

\* C17: a call of build_tm that raises (no voices, an order that is not below
\* the shortest voice, no events) leaves the table of the instrument and the
\* file as they were before the call.
C17_NoPartialConstruction ==
    [][last' # last /\ last'.op = "build" /\ last'.err.raised
           => tm' = tm /\ file' = file /\ saved' = saved]_vars

\* build_tm raised for its order on an instrument whose table had been built
\* and saved, and the table and the file are still there
C17_Witness ==
    /\ last.op = "build" /\ last.err.raised /\ last.err.what = "order"
    /\ ~TmEmpty(tm) /\ file # NoFile /\ saved = tm

\* C18: a step of compose on an instrument that has a table leaves the table
\* as it is: the same row labels, column labels and probabilities.
C18_ComposeReadsOnly ==
    [][~TmEmpty(tm) /\ (pc # "idle" \/ pc' # "idle" \/ ret' # ret)
           => tm' = tm]_vars

\* compose is in its loop, has appended a group, and works on the table a
\* call of build_tm with order 2 made before it
C18_Witness ==
    /\ pc = "compose" /\ Len(comp) >= 2
    /\ ~TmEmpty(tm) /\ last.op = "build" /\ last.order = 2

----------------------------------------------------------------------------
(* to_midi (specification SpecMidi)                                        *)

MidiCalled == midi # NoMidi

\* the number of voices of the events given to to_midi
VoiceCount == IF midi_args.flat THEN 1 ELSE Len(midi_args.events[1])

\* two time steps have different numbers of voices
UnevenSteps ==
    /\ ~midi_args.flat
    /\ \E s, t \in 1..Len(midi_args.events) :
          Len(midi_args.events[s]) # Len(midi_args.events[t])

\* C19: to_midi raises ValueError for an empty list of events, for time
\* steps with different numbers of voices, and for a list of instrument
\* tags whose length is not the number of voices.
C19_ToMidiFails ==
    MidiCalled
        /\ (\/ midi_args.events = <<>>
            \/ UnevenSteps
            \/ /\ midi_args.events # <<>>
               /\ midi_args.instruments.kind = "list"
               /\ Len(midi_args.instruments.val) # VoiceCount)
    => ~midi.ok /\ midi.err = "ValueError"

\* to_midi refused two time steps of one voice each, of a known instrument,
\* because two tags were given
C19_Witness ==
    /\ MidiCalled /\ ~midi.ok
    /\ ~midi_args.flat /\ Len(midi_args.events) = 2 /\ ~UnevenSteps
    /\ VoiceCount = 1
    /\ midi_args.instruments = Tags(<<"piano", "drums">>)

\* the sum of the delta times of the messages of a track
RECURSIVE SumTimes(_)
SumTimes(track) ==
    IF track = <<>> THEN 0 ELSE Head(track).time + SumTimes(Tail(track))

\* the events of voice k of the events given to to_midi
VoiceEvents(k) ==
    IF midi_args.flat THEN midi_args.events
    ELSE [t \in 1..Len(midi_args.events) |-> midi_args.events[t][k]]

IntegerDuration(e) ==
    e.duration.some /\ AllDigits(e.duration.val)

\* the duration of an event in ticks as a fraction: its duration if it has
\* one, else type x divisions
TicksStated(e) ==
    IF IntegerDuration(e) THEN <<DigitsToNat(e.duration.val, 0), 1>>
    ELSE Fraction(e.type[1] * midi_args.divisions, e.type[2])

\* the same, with type x divisions cut down to a whole number
TicksWhole(e) ==
    IF IntegerDuration(e) THEN DigitsToNat(e.duration.val, 0)
    ELSE (e.type[1] * midi_args.divisions) \div e.type[2]

\* C20 as stated: the delta times of the track of a voice sum to the sum of
\* the durations of its events, the duration of an event without an explicit
\* one being type x divisions.
C20_TicksExact ==
    MidiCalled /\ midi.ok =>
        \A k \in 1..Len(midi.val) :
            <<SumTimes(midi.val[k]), 1>> =
                SumFractions([i \in 1..Len(VoiceEvents(k)) |->
                                 TicksStated(VoiceEvents(k)[i])])

\* C20: the delta times of the track of a voice, end_of_track included, sum
\* to the sum of the durations of its events in whole ticks: the explicit
\* duration if it is an integer, else type x divisions cut down to a whole
\* number.
C20_TicksTruncated ==
    MidiCalled /\ midi.ok =>
        \A k \in 1..Len(midi.val) :
            SumTimes(midi.val[k]) =
                SumSeq([i \in 1..Len(VoiceEvents(k)) |->
                           TicksWhole(VoiceEvents(k)[i])])

\* to_midi made the track of a voice that sounds an event and ends on a
\* rest, whose ticks are in the delta time of end_of_track
C20_Witness ==
    /\ MidiCalled /\ midi.ok /\ Len(midi.val) >= 1
    /\ Len(VoiceEvents(1)) = 2
    /\ VoiceEvents(1)[1] = E3 /\ VoiceEvents(1)[2] = E2
    /\ midi_args.divisions = 4
    /\ midi.val[1][Len(midi.val[1])].time = 2
    /\ SumTimes(midi.val[1]) = 3

----------------------------------------------------------------------------
(* Rests in the track of a voice                                           *)

IsNoteMsg(m) == m.type \in {"note_on", "note_off"}

\* the note_on and note_off messages of a track, in their order
NoteMsgs(track) == SelectSeq(track, IsNoteMsg)

\* the number of notes of an event that are not rests
SoundingCount(e) ==
    Cardinality({i \in 1..Len(e.notes) : ~is_rest(e.notes[i])})

\* the ticks of the events of the voice at the positions lo..hi
TicksBetween(events, lo, hi) ==
    SumSeq([j \in 1..(hi - lo + 1) |->
               EventDurationTicks(events[lo + j - 1], midi_args.divisions)])

\* the position of the last sounding event before position i, 0 if none
PrevSounding(events, i) ==
    LET before == {j \in 1..(i - 1) : SoundingCount(events[j]) > 0} IN
    IF before = {} THEN 0 ELSE CHOOSE j \in before : \A h \in before : h <= j

\* the number of note messages written for the events before position i
NoteMsgsBefore(events, i) ==
    SumSeq([j \in 1..(i - 1) |-> 2 * SoundingCount(events[j])])

\* the track written for the events of a voice: rests write no note message,
\* the first note_on of a sounding event waits for the rests since the last
\* sounding event and for nothing else, and end_of_track waits for the rests
\* after the last sounding event
RestsAccumulate(events, track) ==
    /\ Len(NoteMsgs(track)) = NoteMsgsBefore(events, Len(events) + 1)
    /\ \A i \in 1..Len(events) :
          SoundingCount(events[i]) > 0 =>
              LET on == NoteMsgs(track)[NoteMsgsBefore(events, i) + 1] IN
              /\ on.type = "note_on"
              /\ on.time = TicksBetween(events,
                                        PrevSounding(events, i) + 1, i - 1)
    /\ track[Len(track)].type = "end_of_track"
    /\ track[Len(track)].time =
           TicksBetween(events, PrevSounding(events, Len(events) + 1) + 1,
                        Len(events))

\* C21: in the track of a voice, rests emit no note messages, the delta time
\* of the first note_on of a sounding event is the sum of the ticks of the
\* rests that immediately precede it (0 if none, the pending time being
\* reset by every sounding event), and the rests at the end are the delay of
\* end_of_track.
C21_RestsAccumulate ==
    MidiCalled /\ midi.ok =>
        \A k \in 1..Len(midi.val) :
            RestsAccumulate(VoiceEvents(k), midi.val[k])

\* to_midi wrote the track of two rests of 2 ticks and 1 tick and a sounding
\* event: the note_on waits 3 ticks
C21_Witness ==
    /\ MidiCalled /\ midi.ok /\ midi_args.flat
    /\ midi_args.events = <<E2, E4, E1>> /\ midi_args.divisions = 4
    /\ Len(NoteMsgs(midi.val[1])) = 2
    /\ NoteMsgs(midi.val[1])[1].time = 3
    /\ midi.val[1][Len(midi.val[1])].time = 0

----------------------------------------------------------------------------
(* The contents of the table                                               *)

\* the encodings of the events of the voice at position k of the voice list
\* that are at an index below the minimum voice length
KeptEncodings(k) ==
    {PoolRepr[ConcatenatedStream(voices[k])[i]] :
        i \in 1..ConcatenatedMinLength}

\* the pieces are encodings of events the voices have, in the order of the
\* voice list, at an index below the minimum voice length
PiecesOfKept(pieces, kept) ==
    /\ Len(pieces) = Len(voices)
    /\ \A k \in 1..Len(voices) : pieces[k] \in kept[k]

\* so are the "&" pieces of every one of the groups
GroupsOfKept(groups, kept) ==
    \A j \in 1..Len(groups) : PiecesOfKept(Split(groups[j], "&"), kept)

\* no label of the table holds an event from beyond the minimum voice length
LabelsOfKept(t, kept) ==
    /\ \A r \in 1..Len(t.index) :
          GroupsOfKept(Split(t.index[r], "+"), kept)
    /\ GroupsOfKept(t.columns, kept)

\* the labels of the rows are distinct, and so are those of the columns
DistinctLabels(t) ==
    /\ Len(t.index) = Cardinality(Range(t.index))
    /\ Len(t.columns) = Cardinality(Range(t.columns))

\* C22: with L the minimum voice length, window(i) the "+"-join of the
\* groups at (i+j) mod L for j < order and succ(i) the group at
\* (i+order) mod L, the rows of the built table are exactly the windows, its
\* columns exactly the successors, the entry [s][t] is the number of i with
\* window(i) = s and succ(i) = t over the number of i with window(i) = s,
\* and no key holds an event at an index >= L of a longer voice.
C22_ModularTable ==
    Built =>
        /\ DistinctLabels(tm)
        /\ \A pairs \in {ConcatenatedPairs(last.order)} :
              CountsWindows(tm, pairs)
        /\ \A kept \in {[k \in 1..Len(voices) |-> KeptEncodings(k)]} :
              LabelsOfKept(tm, kept)

\* a table of order 2 was built for two voices of lengths 3 and 4: the
\* windows that start at 1 and 2 wrap around, and the fourth event of the
\* longer voice, E2, which the voice has at no other index, is in no key
C22_Witness ==
    /\ Built /\ last.order = 2 /\ voices = <<1, 2>>
    /\ ConcatenatedMinLength = 3
    /\ Len(ConcatenatedStream(2)) = 4
    /\ ConcatenatedStream(2)[4] = E2
    /\ EventRepr(E2) \notin KeptEncodings(2)
    /\ ConcatenatedKey(2, 2) \in Range(tm.index)

----------------------------------------------------------------------------
(* The steps of compose (specification Spec)                               *)

\* the row of the current state key, 0 if it is no row
CurrentRow == IndexOf(tm.index, current_str)

\* a step of the loop of compose that drew a number and went on
StepDrew ==
    /\ pc = "compose" /\ pc' = "compose" /\ sims_left' = sims_left - 1
    /\ CurrentRow # 0 /\ Len(Successors(tm, CurrentRow)) > 0

\* the column of the first successor of the current row at which the
\* running sum of the probabilities exceeds the draw the step made
FirstExceedingColumn ==
    tm.columns[Successors(tm, CurrentRow)[
        SelectedAtHit(FirstExceeding(tm, CurrentRow,
                                     Successors(tm, CurrentRow),
                                     rngTape'[rngPos']),
                      Len(Successors(tm, CurrentRow)))]]

\* C23: a step of compose appends the first successor of the current row, in
\* column order, at which the running sum of the probabilities exceeds the
\* draw.
C23_InverseCdf ==
    [][StepDrew =>
          comp' = Append(comp, SuccessorGroup(FirstExceedingColumn).val)]_vars

\* the row keys compose can take as its initial state on table t: the rows
\* at the positions random.randint(0, len(columns) - 1) can return
InitialStates(t) ==
    {t.index[RandInt(raw, Len(t.columns) - 1) + 1] :
        raw \in {n \in 0..(Len(t.columns) - 1) : n + 1 <= Len(t.index)}}

\* C24: on every table build_tm made, of any order, compose can take every
\* row key as its initial state.
C24_EveryRowInitial ==
    last.op = "build" /\ ~TmEmpty(tm) =>
        Range(tm.index) \subseteq InitialStates(tm)

\* the "+" segments of a state key
Segments(key) == Split(key, "+")

\* the encoding of a group of events: their strings joined by "&"
GroupRepr(group) ==
    Join([k \in 1..Len(group) |-> EventRepr(group[k])], <<"&">>)

\* the step appended the group of successor t and slid the window: the
\* oldest segment is dropped, t is the newest
SlidTo(t) ==
    /\ SuccessorGroup(t).ok
    /\ comp' = Append(comp, SuccessorGroup(t).val)
    /\ current_str' = Join(Tail(Segments(current_str)) \o <<t>>, <<"+">>)

\* inside compose the state key has as many segments as the keys of the
\* table, the order, and its last segment encodes the last group emitted
WindowOfOutput ==
    pc = "compose" =>
        /\ Len(Segments(current_str)) = Len(Segments(tm.index[1]))
        /\ last.op = "build" => Len(Segments(current_str)) = last.order
        /\ Last(Segments(current_str)) = GroupRepr(Last(comp))

\* C25: a step of compose that selects successor t replaces the state key
\* s1+s2+...+s_order by s2+...+s_order+t (by t alone when order = 1); from
\* the seed on, the last segment of the state key is the encoding of the
\* group emitted last, and the key has exactly `order` segments.
C25_SlidingWindow ==
    /\ []WindowOfOutput
    /\ [][StepDrew => \E c \in 1..Len(tm.columns) : SlidTo(tm.columns[c])]_vars

\* on a table of order 2 the window slid twice: the state key is made of the
\* two groups emitted last, which differ
C25_Witness ==
    /\ pc = "compose" /\ last.op = "build" /\ last.order = 2
    /\ Len(comp) = 3 /\ comp[2] # comp[3]
    /\ current_str = GroupRepr(comp[2]) \o <<"+">> \o GroupRepr(comp[3])

----------------------------------------------------------------------------
(* A state without successors (specification SpecDeadEnd)                  *)

\* compose is at a state key whose row has no entry above 0
AtDeadEnd ==
    /\ pc = "compose" /\ sims_left > 0
    /\ CurrentRow # 0 /\ Len(Successors(tm, CurrentRow)) = 0

\* C26: at a state whose row has no strictly positive successor, the step of
\* compose does not fail: it appends the previous group again and leaves
\* the state key as it is; the output still has n_simulations + 1 groups.
C26_DeadEndRepeats ==
    /\ [][AtDeadEnd =>
             /\ pc' = "compose"
             /\ comp' = Append(comp, Last(comp))
             /\ current_str' = current_str]_vars
    /\ [](pc = "idle" /\ ret.status = "returned"
             => Len(ret.val) = n_simulations + 1)

\* compose(n_simulations=2) returned three groups: it went from E1 to E2,
\* whose row has no successor, and repeated E2
C26_Witness ==
    /\ pc = "idle" /\ ret.status = "returned" /\ n_simulations = 2
    /\ ret.val = <<<<E1>>, <<E2>>, <<E2>>>>
    /\ Successors(tm, IndexOf(tm.index, EventRepr(E2))) = <<>>

----------------------------------------------------------------------------
(* The output of compose is a path of the chain (specification Spec)       *)

\* the events the selected voices have at index i of the aggregated corpus,
\* in the order of the voice list
CorpusGroup(i) ==
    [k \in 1..Len(voices) |-> ConcatenatedStream(voices[k])[i + 1]]

\* the groups at the indices below the minimum voice length
CorpusGroups == {CorpusGroup(i) : i \in 0..(ConcatenatedMinLength - 1)}

\* the entry of the current row at the column of a group, as a fraction; 0
\* if the group is no column
EntryOf(group) ==
    IF IndexOf(tm.columns, GroupRepr(group)) = 0 THEN <<0, 1>>
    ELSE tm.val[CurrentRow][IndexOf(tm.columns, GroupRepr(group))]

\* C27: the group a step of compose emits has a strictly positive
\* probability in the row of the state that was current before the step,
\* and every group emitted, the seed included, occurs in the aggregated
\* corpus at an index below the minimum voice length.
C27_PathOfChain ==
    /\ [][StepDrew => EntryOf(Last(comp'))[1] > 0]_vars
    /\ [](pc = "compose" =>
             \A n \in 1..Len(comp) : comp[n] \in CorpusGroups)

\* compose emitted three groups of two voices on a built table, the last two
\* different
C27_Witness ==
    /\ pc = "compose" /\ last.op = "build" /\ voices = <<1, 2>>
    /\ Len(comp) = 3 /\ comp[2] # comp[3]
    /\ comp[3] \in CorpusGroups

----------------------------------------------------------------------------
(* The shape and the raw counts of the built table (SpecBuild)             *)

\* the positions random.randint(0, len(columns) - 1) can return for table t
InitialPositions(t) == 0..(Len(t.columns) - 1)

\* C28: a table build_tm made has at least as many rows as columns, so the
\* position compose draws for the initial state, in 0..len(columns) - 1, is
\* the position of a row.
C28_RowsCoverColumns ==
    Built =>
        /\ Len(tm.index) >= Len(tm.columns)
        /\ \A rand_num \in InitialPositions(tm) :
              rand_num + 1 \in DOMAIN tm.index

\* a table of order 2 with 3 rows and 2 columns was built
C28_Witness ==
    /\ Built /\ last.order = 2
    /\ Len(tm.index) = 3 /\ Len(tm.columns) = 2
    /\ InitialPositions(tm) = {0, 1}

\* the table of the counts of step 4 of the build_tm call that made tm,
\* before the normalisation: the counts of the windows of the concatenations
BuiltRaw ==
    CHOOSE raw \in {RawCounts(pairs, tm.index, tm.columns) :
                       pairs \in {ConcatenatedPairs(last.order)}} : TRUE

\* every row of the counts has a count, every column has one in some row,
\* and the counts are min_voice_length in all
CountsCover(raw, L) ==
    /\ \A r \in DOMAIN raw : SumSeq(raw[r]) >= 1
    /\ \A c \in 1..Len(tm.columns) : \E r \in DOMAIN raw : raw[r][c] >= 1
    /\ SumSeq([r \in DOMAIN raw |-> SumSeq(raw[r])]) = L

\* the assignment of line 131 changes no row of the counts
FallbackIdle(raw) ==
    /\ {r \in DOMAIN raw : SumSeq(raw[r]) = 0} = {}
    /\ tm.val = NormalizeNoFallback(raw)

\* C29: in build_tm every row key has a raw count of at least 1 and every
\* column key has one in some row, the raw counts being min_voice_length in
\* all; no row sums to zero and the fallback of the zero rows is never
\* applied.
C29_NoZeroRow ==
    Built =>
        \A raw \in {BuiltRaw} :
            /\ CountsCover(raw, ConcatenatedMinLength)
            /\ FallbackIdle(raw)

\* a table of order 2 was built from 5 windows, two of them with the same
\* state key: it has 4 rows, one of them with the count 2
C29_Witness ==
    /\ Built /\ last.order = 2
    /\ ConcatenatedMinLength = 5 /\ Len(tm.index) = 4
    /\ \E r \in 1..4 : SumSeq(BuiltRaw[r]) = 2

----------------------------------------------------------------------------
(* A composition given to to_midi (specification Spec)                     *)

\* compose returned a composition
Composed == pc = "idle" /\ ret.status = "returned"

\* to_midi(composition, instruments=[one "piano" for each selected voice])
\* on an instrument with 4 divisions and the tempo 120
MidiOfComposition ==
    [flat |-> FALSE, events |-> ret.val,
     instruments |-> Tags([k \in 1..Len(voices) |-> "piano"]),
     tempo |-> NoNumber, velocity |-> DefaultVelocity, divisions |-> 4,
     self_tempo |-> 120]

\* the two checks of to_midi accept a list of time steps and a list of tags
ChecksAccept(events, instruments) ==
    /\ VoiceSequences(events).ok
    /\ InstrumentNames(instruments, Len(VoiceSequences(events).val)).ok

\* C30: every group compose returns on a table built for k selected voices
\* has exactly k Events, those of the voices in the order of the voice list,
\* so to_midi accepts the composition with a list of k instruments.
C30_GroupsOfKVoices ==
    Composed =>
        /\ \A n \in 1..Len(ret.val) :
              /\ Len(ret.val[n]) = Len(voices)
              /\ \E i \in 0..(ConcatenatedMinLength - 1) :
                    \A k \in 1..Len(voices) :
                        ret.val[n][k] = ConcatenatedStream(voices[k])[i + 1]
        /\ ChecksAccept(ret.val, MidiOfComposition.instruments)

\* compose returned three groups for the voices 1 and 2, and to_midi makes
\* two tracks of them
C30_Witness ==
    /\ Composed /\ voices = <<1, 2>> /\ Len(ret.val) = 3
    /\ ToMidi(MidiOfComposition).ok
    /\ Len(ToMidi(MidiOfComposition).val) = 2

=============================================================================
